---- MODULE Spec2Model ----
(***************************************************************************)
(* Monetizelt Cloud Functions (src/index.js): the settlement and product   *)
(* lifecycle core.  The Firestore collections and the storage bucket are   *)
(* the state; every exported function is an action.                        *)
(*                                                                         *)
(* Money is counted in micro-dollars (Dollar = 10^6), so that the fee      *)
(* rates 0.029, 0.12 and 0.0349 are exact on the prices the model uses.    *)
(* Time is counted in clock ticks of one product lifetime (7 days).        *)
(***************************************************************************)
EXTENDS Integers, Sequences, FiniteSets, TLC

VARIABLES
    now,            \* the wall clock (new Date(), serverTimestamp())
    products,       \* collection "products": id -> document
    nextProduct,    \* the next auto-generated product id
    files,          \* storage: ids of the products whose filePath object exists
    views,          \* collection "productViews": number of rows per productId
    sessions,       \* collection "paymentSessions": id -> document
    nextSession,    \* the next generated session id
    checkouts,      \* Stripe side: metadata of the checkout sessions created
    orders,         \* collection "orders": id -> document (the access token is the id)
    nextOrder,      \* the next auto-generated order id
    accessAttempts, \* collection "accessAttempts": number of rows per orderId
    accessLogs,     \* collection "accessLogs": number of rows per orderId
    users,          \* collection "users": uid -> document
    transactions,   \* collection "transactions", in creation order
    payoutHistory,  \* collection "payoutHistory", in creation order
    payoutErrors,   \* collection "payoutErrors", in creation order
    paypalCalls,    \* PayPal side: the payout requests received, in order
    notices,        \* SendGrid side: min_balance_not_reached emails sent, per uid
    resp,           \* the last request observed and the status of its response
    wh,             \* stripeWebhook invocations in flight: worker -> position and locals
    ac,             \* accessContent invocations in flight: worker -> position and locals
    po,             \* payout runs in flight: job -> position, snapshot left to pay
    debits,         \* history: per uid, payout debits applied and gross amounts sent
    hist,           \* history: per session id, deliveries and fulfilment effects so far
    deletedUsers,   \* history: uids whose account deleteUserAccount has deleted
    shippedCount,   \* history: per order, the shippedCount increments made for it
    swept,          \* history: what each cleanupOldProducts purge removed and kept
    firstDevice,    \* history: per order, the fingerprint of its first accessContent call
    userStats,      \* collection "userStats": uid -> the seller's aggregate counters
    systemErrors,   \* collection "systemErrors": the job named by each row, in order
    payoutSessions, \* collection "payoutSessions", in creation order
    emailSentLogs,  \* collection "emailSentLogs": productIds with an expiration_warning row
    warnings,       \* SendGrid side: link_expiration_warning emails sent and failed, per productId
    cl,             \* the cleanupOldProducts run in flight: position and products left
    batches         \* store side: the number of writes of each batch committed, in order

vars == <<now, products, nextProduct, files, views, sessions, nextSession, checkouts,
          orders, nextOrder, accessAttempts, accessLogs, users, transactions,
          payoutHistory, payoutErrors, paypalCalls, notices, resp, wh, ac, po, debits, hist, deletedUsers, shippedCount,
          swept, firstDevice, userStats, systemErrors, payoutSessions, emailSentLogs,
          warnings, cl, batches>>

(* ------------------------------- bounds -------------------------------- *)

MaxProducts == 2
MaxSessions == 2
MaxOrders == 2
MaxTime == 2
MaxViews == 1
MaxAccess == 2
MaxPayoutErrors == 2
MaxNotices == 1
MaxKills == 2
MaxRows == 600
MaxBatches == 2
MaxHour == 170
MaxSendFailures == 2
MaxSystemErrors == 2
MaxPayoutSessions == 2

Users == {"u1", "u2"}
Workers == {"w1", "w2"}
ProductIds == 1..MaxProducts
SessionIds == 1..MaxSessions
OrderIds == 1..MaxOrders

(* --------------------------- program constants -------------------------- *)

Dollar == 1000 * 1000

\* PRODUCT_TTL_MS, 7 days, in clock ticks of 7 days
PRODUCT_TTL == 1
\* 0.0349, in 1/10000
PAYPAL_FEE_RATE == 349
\* 0.49 dollars
PAYPAL_FEE_FIXED == 490000
\* 0.12, in 1/100
PLATFORM_RATE == 12
\* 0.029, in 1/1000
STRIPE_FEE_RATE == 29
\* 0.3 dollars
STRIPE_FEE_FIXED == 300000
MIN_PAYOUT == 10 * Dollar

\* the prices a createProduct request may carry: 0.50 and 20.00 dollars
PriceInputs == {Dollar \div 2, 20 * Dollar}

(* ------------------------------- helpers -------------------------------- *)

\* user agents a request may carry, and what UAParser makes of them
UserAgents == {"", "Chrome/Windows", "Safari/Mac OS"}

extractDeviceInfo(userAgent) ==
    CASE userAgent = "Chrome/Windows" -> [browser |-> "Chrome", os |-> "Windows"]
      [] userAgent = "Safari/Mac OS" -> [browser |-> "Safari", os |-> "Mac OS"]
      [] OTHER -> [browser |-> "Unknown", os |-> "Unknown"]

getProductExpirationDate(createdAtDate) == createdAtDate + PRODUCT_TTL

\* an expiry check that never finds a product expired
IsNeverExpired(product) == FALSE

\* product.expiresAt && product.expiresAt.toDate() < new Date()
IsExpired(product) == product.expiresAt < now

\* a channel fee without its fixed part
stripeFeeNoFixed(productPrice) ==
    (productPrice \div 1000) * STRIPE_FEE_RATE
        + ((productPrice % 1000) * STRIPE_FEE_RATE) \div 1000

\* productPrice * STRIPE_FEE_RATE + STRIPE_FEE_FIXED (the product split to stay in range)
stripeFee(productPrice) ==
    (productPrice \div 1000) * STRIPE_FEE_RATE
        + ((productPrice % 1000) * STRIPE_FEE_RATE) \div 1000 + STRIPE_FEE_FIXED
monetizeltCommission(productPrice) == (productPrice * PLATFORM_RATE) \div 100
sellerAmount(productPrice) ==
    productPrice - stripeFee(productPrice) - monetizeltCommission(productPrice)

\* PAYPAL_FEE_FIXED + amount * PAYPAL_FEE_RATE (the product split to stay in range)
payoutFee(amount) ==
    PAYPAL_FEE_FIXED + (amount \div 10000) * PAYPAL_FEE_RATE
        + ((amount % 10000) * PAYPAL_FEE_RATE) \div 10000

\* a collection is a function from the ids of its documents to the documents
Empty == [x \in {} |-> 0]
Put(f, k, v) == [x \in DOMAIN f \cup {k} |-> IF x = k THEN v ELSE f[x]]
Remove(f, S) == [x \in DOMAIN f \ S |-> f[x]]

RECURSIVE SumInts(_)
SumInts(seq) == IF seq = <<>> THEN 0 ELSE Head(seq) + SumInts(Tail(seq))

IsPrefix(s, t) == Len(s) <= Len(t) /\ SubSeq(t, 1, Len(s)) = s

(* -------------------------------- state --------------------------------- *)

NoHist == [orders |-> 0, credits |-> 0, sales |-> 0, replayed |-> FALSE]
NoDevice == [browser |-> "none", os |-> "none"]
NoResponse == [op |-> "none", pid |-> 0, sid |-> 0, emailOk |-> FALSE, token |-> 0,
               userAgent |-> "", status |-> 0]
Idle == [pc |-> "idle", sid |-> 0, pid |-> 0, seller |-> "u1", price |-> 0, orderId |-> 0]
NoAccess == [pc |-> "idle", token |-> 0, status |-> "none"]
\* no payout yet: debits applied, gross amount debited, gross amount for which
\* PayPal accepted a payout
NoDebits == [count |-> 0, amount |-> 0, sent |-> 0]

Jobs == {"processWeeklyPayouts", "weeklyPayouts"}
NoJob == [pc |-> "idle", queue |-> <<>>]

\* the records of the scheduled jobs
jobVars == <<userStats, systemErrors, payoutSessions, emailSentLogs, warnings, cl, batches>>

\* a seller with nothing listed, and no cleanup run in flight
NoStats == [linksCount |-> 0, viewsCount |-> 0, ordersCount |-> 0, shippedCount |-> 0,
            revenueCount |-> 0]
\* no warning email attempted for a product
NoWarning == [sent |-> 0, failed |-> 0]
NoSweep == [pc |-> "idle", step |-> 1, queue |-> <<>>, sellers |-> {}, kills |-> 0]

\* no scheduled job has run yet
NoJobRecords ==
    /\ userStats = [u \in Users |-> NoStats]
    /\ systemErrors = <<>>
    /\ payoutSessions = <<>>
    /\ emailSentLogs = {}
    /\ warnings = [p \in ProductIds |-> NoWarning]
    /\ cl = NoSweep
    /\ batches = <<>>

\* the store is empty but for the users' accounts, which the client creates at
\* sign-up and onboarding (exports.updatePaypalEmail sets the PayPal address);
\* every account has balance 0
Init ==
    /\ now = 0
    /\ products = Empty
    /\ nextProduct = 1
    /\ files = {}
    /\ views = [p \in ProductIds |-> 0]
    /\ sessions = Empty
    /\ nextSession = 1
    /\ checkouts = {}
    /\ orders = Empty
    /\ nextOrder = 1
    /\ accessAttempts = [o \in OrderIds |-> 0]
    /\ accessLogs = [o \in OrderIds |-> 0]
    /\ users = [u \in Users |-> [balance |-> 0, paypalEmail |-> "valid", email |-> "valid"]]
    /\ transactions = <<>>
    /\ payoutHistory = <<>>
    /\ payoutErrors = <<>>
    /\ paypalCalls = <<>>
    /\ notices = [u \in Users |-> 0]
    /\ resp = NoResponse
    /\ wh = [w \in Workers |-> Idle]
    /\ ac = [w \in Workers |-> NoAccess]
    /\ po = [j \in Jobs |-> NoJob]
    /\ debits = [u \in Users |-> NoDebits]
    /\ hist = [s \in SessionIds |-> NoHist]
    /\ deletedUsers = {}
    /\ shippedCount = [o \in OrderIds |-> 0]
    /\ swept = {}
    /\ firstDevice = [o \in OrderIds |-> NoDevice]
    /\ NoJobRecords

catalogVars == <<products, nextProduct, files, views>>
checkoutVars == <<sessions, nextSession, checkouts>>
orderVars == <<orders, nextOrder, accessAttempts, accessLogs>>
payoutVars == <<payoutHistory, payoutErrors, paypalCalls, notices>>
moneyVars == <<users, transactions, payoutVars>>
historyVars == <<wh, ac, po, debits, hist, deletedUsers, shippedCount, swept, firstDevice>>
\* everything the program stores: all but the clock and the observers
storeVars == <<catalogVars, checkoutVars, orderVars, moneyVars>>

\* the HTTP handlers below take the status of the response they send as their
\* last parameter; a specification that observes responses records it, with the
\* request, in resp
StatusCodes == {200, 400, 403, 404, 410}

\* the clock advances
Tick ==
    /\ now < MaxTime
    /\ now' = now + 1
    /\ UNCHANGED <<storeVars, historyVars>>

(* ------------------------- products and sessions ------------------------ *)

\* a listing request whose price has no lower limit
createProductAnyPrice(uid, price, status) ==
    /\ nextProduct <= MaxProducts
    /\ products' = Put(products, nextProduct,
                       [uid |-> uid, price |-> price, createdAt |-> now,
                        expiresAt |-> getProductExpirationDate(now),
                        sales |-> 0, revenue |-> 0])
    /\ nextProduct' = nextProduct + 1
    /\ status = 200
    /\ UNCHANGED <<now, files, views, checkoutVars, orderVars, moneyVars, historyVars>>

\* exports.createProduct: the listing is stored with createdAt = now and
\* expiresAt = now + TTL; the uid is not checked against the users collection
createProduct(uid, price, status) ==
    /\ \/ /\ price < Dollar
          /\ status = 400
          /\ UNCHANGED <<products, nextProduct>>
       \/ /\ price >= Dollar
          /\ nextProduct <= MaxProducts
          /\ products' = Put(products, nextProduct,
                             [uid |-> uid, price |-> price, createdAt |-> now,
                              expiresAt |-> getProductExpirationDate(now),
                              sales |-> 0, revenue |-> 0])
          /\ nextProduct' = nextProduct + 1
          /\ status = 200
    /\ UNCHANGED <<now, files, views, checkoutVars, orderVars, moneyVars, historyVars>>

\* the seller's client uploads the file through the signed write URL that
\* createProduct returned (valid 15 minutes: within the tick of the creation)
uploadFile(productId) ==
    /\ productId \in DOMAIN products
    /\ products[productId].createdAt = now
    /\ productId \notin files
    /\ files' = files \cup {productId}
    /\ UNCHANGED <<now, products, nextProduct, views, checkoutVars, orderVars, moneyVars,
                   historyVars>>

\* exports.getProductDetails
getProductDetails(productId, status) ==
    /\ \/ /\ productId \notin DOMAIN products
          /\ status = 404
          /\ UNCHANGED views
       \/ /\ productId \in DOMAIN products
          /\ IsExpired(products[productId])
          /\ status = 410
          /\ UNCHANGED views
       \/ /\ productId \in DOMAIN products
          /\ ~IsExpired(products[productId])
          /\ views[productId] < MaxViews
          /\ views' = [views EXCEPT ![productId] = @ + 1]
          /\ status = 200
    /\ UNCHANGED <<now, products, nextProduct, files, checkoutVars, orderVars, moneyVars,
                   historyVars>>

\* exports.collectBuyerEmail; emailOk is isEmail(email)
collectBuyerEmail(emailOk, productId, status) ==
    /\ \/ /\ ~emailOk
          /\ status = 400
          /\ UNCHANGED <<sessions, nextSession>>
       \/ /\ emailOk
          /\ productId \notin DOMAIN products
          /\ status = 404
          /\ UNCHANGED <<sessions, nextSession>>
       \/ /\ emailOk
          /\ productId \in DOMAIN products
          /\ IsExpired(products[productId])
          /\ status = 410
          /\ UNCHANGED <<sessions, nextSession>>
       \/ /\ emailOk
          /\ productId \in DOMAIN products
          /\ ~IsExpired(products[productId])
          /\ nextSession <= MaxSessions
          /\ sessions' = Put(sessions, nextSession,
                             [productId |-> productId, completed |-> FALSE,
                              orderId |-> 0, stripeStatus |-> "none"])
          /\ nextSession' = nextSession + 1
          /\ status = 200
    /\ UNCHANGED <<now, catalogVars, checkouts, orderVars, moneyVars, historyVars>>

\* exports.createStripeCheckoutSession: the session is validated before the
\* product; the metadata carries the session, the product and the seller
createStripeCheckoutSession(productId, sessionId, status) ==
    /\ \/ /\ sessionId \notin DOMAIN sessions
          /\ status = 404
          /\ UNCHANGED <<sessions, checkouts>>
       \/ /\ sessionId \in DOMAIN sessions
          /\ sessions[sessionId].completed
          /\ status = 400
          /\ UNCHANGED <<sessions, checkouts>>
       \/ /\ sessionId \in DOMAIN sessions
          /\ ~sessions[sessionId].completed
          /\ productId \notin DOMAIN products
          /\ status = 404
          /\ UNCHANGED <<sessions, checkouts>>
       \/ /\ sessionId \in DOMAIN sessions
          /\ ~sessions[sessionId].completed
          /\ productId \in DOMAIN products
          /\ IsExpired(products[productId])
          /\ status = 410
          /\ UNCHANGED <<sessions, checkouts>>
       \/ /\ sessionId \in DOMAIN sessions
          /\ ~sessions[sessionId].completed
          /\ productId \in DOMAIN products
          /\ ~IsExpired(products[productId])
          /\ checkouts' = checkouts \cup
                 {[sid |-> sessionId, pid |-> productId, seller |-> products[productId].uid]}
          /\ sessions' = [sessions EXCEPT ![sessionId].stripeStatus = "created"]
          /\ status = 200
    /\ UNCHANGED <<now, catalogVars, nextSession, orderVars, moneyVars, historyVars>>

(* ------------------------------ fulfilment ------------------------------ *)

\* a write that lands on the id of the newest document instead of a fresh one
SetLastDoc(collection, row) ==
    IF collection = <<>> THEN <<row>> ELSE [collection EXCEPT ![Len(collection)] = row]

\* collection.add: a new document; no existing one is touched
AddDoc(collection, row) == Append(collection, row)

\* a replay check that never recognises a completed session
sessionNeverCompleted(sessionDoc) == FALSE

\* paymentSessionDoc.data().completed
sessionCompleted(sessionDoc) == sessionDoc.completed

\* the Order that fulfilment creates; the webhook has no user agent
newOrder(productId, sellerUid, productPrice) ==
    [productId |-> productId, sellerUid |-> sellerUid, amount |-> productPrice,
     stripeFee |-> stripeFee(productPrice),
     commission |-> monetizeltCommission(productPrice),
     sellerAmount |-> sellerAmount(productPrice), status |-> "completed",
     deviceInfo |-> [browser |-> "Unknown", os |-> "Unknown"]]

saleTransaction(sellerUid, orderId, productPrice) ==
    [userId |-> sellerUid, type |-> "sale", amount |-> sellerAmount(productPrice),
     grossAmount |-> productPrice, orderId |-> orderId]

\* users.doc(uid).set({balance: increment(delta)}, {merge: true})
creditBalance(uid, delta) ==
    IF uid \in DOMAIN users
    THEN [users EXCEPT ![uid].balance = @ + delta]
    ELSE Put(users, uid, [balance |-> delta, paypalEmail |-> "none", email |-> "none"])

CheckoutCompleted == "checkout.session.completed"
EventTypes == {CheckoutCompleted, "payment_intent.succeeded"}

\* a verification that accepts every signature
signatureAlwaysVerifies(evt) == TRUE

\* stripe.webhooks.constructEvent(buf, sig, secret) returns: the signature of
\* the delivery verifies against the shared secret
signatureVerifies(evt) == evt.signed

\* a metadata check that passes every event
metadataAlwaysComplete(evt) == TRUE

\* appSessionId, productId, sellerUid and buyerEmail are all present
metadataComplete(evt) == evt.complete

\* session.metadata: app_session_id, app_product_id, app_seller_uid
metadata(evt) == [sid |-> evt.sid, pid |-> evt.pid, seller |-> evt.seller]

\* exports.stripeWebhook, run from the signature check to the response with
\* nothing interleaved.  A delivery whose signature does not verify is answered
\* 400; any other is acknowledged, and fulfilled when it is a
\* checkout.session.completed event with complete metadata, for a session not
\* yet completed, a product that exists and has not expired, and a file that
\* exists.  Stripe signs completed-checkout events for the checkouts it holds
stripeWebhook(evt, status) ==
    /\ \/ /\ ~signatureVerifies(evt)
          /\ status = 400
          /\ UNCHANGED <<products, sessions, orders, nextOrder, users, transactions, hist>>
       \/ /\ signatureVerifies(evt)
          /\ evt.type # CheckoutCompleted \/ ~metadataComplete(evt)
          /\ status = 200
          /\ UNCHANGED <<products, sessions, orders, nextOrder, users, transactions, hist>>
       \/ /\ signatureVerifies(evt)
          /\ evt.type = CheckoutCompleted
          /\ metadataComplete(evt)
          /\ evt.signed => metadata(evt) \in checkouts
          /\ status = 200
          /\ \/ /\ evt.sid \notin DOMAIN sessions
                /\ UNCHANGED <<products, sessions, orders, nextOrder, users, transactions, hist>>
             \/ /\ evt.sid \in DOMAIN sessions
                /\ sessionCompleted(sessions[evt.sid])
                /\ hist' = [hist EXCEPT ![evt.sid].replayed = TRUE]
                /\ UNCHANGED <<products, sessions, orders, nextOrder, users, transactions>>
             \/ /\ evt.sid \in DOMAIN sessions
                /\ ~sessionCompleted(sessions[evt.sid])
                /\ \/ evt.pid \notin DOMAIN products
                   \/ /\ evt.pid \in DOMAIN products
                      /\ \/ IsExpired(products[evt.pid])
                         \/ evt.pid \notin files
                /\ UNCHANGED <<products, sessions, orders, nextOrder, users, transactions, hist>>
             \/ /\ evt.sid \in DOMAIN sessions
                /\ ~sessionCompleted(sessions[evt.sid])
                /\ evt.pid \in DOMAIN products
                /\ ~IsExpired(products[evt.pid])
                /\ evt.pid \in files
                /\ nextOrder <= MaxOrders
                /\ LET productPrice == products[evt.pid].price IN
                   /\ orders' = Put(orders, nextOrder, newOrder(evt.pid, evt.seller, productPrice))
                   /\ nextOrder' = nextOrder + 1
                   /\ products' = [products EXCEPT
                                      ![evt.pid].sales = @ + 1,
                                      ![evt.pid].revenue = @ + sellerAmount(productPrice)]
                   /\ users' = creditBalance(evt.seller, sellerAmount(productPrice))
                   /\ transactions' =
                          AddDoc(transactions, saleTransaction(evt.seller, nextOrder, productPrice))
                   /\ sessions' = [sessions EXCEPT ![evt.sid].completed = TRUE,
                                                   ![evt.sid].orderId = nextOrder,
                                                   ![evt.sid].stripeStatus = "completed"]
                   /\ hist' = [hist EXCEPT ![evt.sid].orders = @ + 1,
                                           ![evt.sid].credits = @ + 1,
                                           ![evt.sid].sales = @ + 1]
    /\ UNCHANGED <<now, nextProduct, files, views, nextSession, checkouts, accessAttempts,
                   accessLogs, payoutVars, wh, ac, po, debits, deletedUsers, shippedCount, swept, firstDevice>>

(* ------------------------------- deletion ------------------------------- *)

\* a purge that leaves the orders alone
ordersOfNoProduct(productIds) == {}

\* a purge that takes the orders by seller instead of by product
ordersOfSellers(productIds) ==
    {o \in DOMAIN orders : \E p \in productIds : products[p].uid = orders[o].sellerUid}

\* db.collection("orders").where("productId", "==", productId)
ordersOfProducts(productIds) == {o \in DOMAIN orders : orders[o].productId \in productIds}

\* db.collection("paymentSessions").where("productId", "==", productId)
sessionsOfProducts(productIds) ==
    {s \in DOMAIN sessions : sessions[s].productId \in productIds}

\* the cascade that the three deletion paths share, with no storage or store
\* failure: the files, the views, the orders with their access logs and
\* attempts, the payment sessions and the product documents
cascadeDelete(productIds) ==
    /\ files' = files \ productIds
    /\ views' = [p \in ProductIds |-> IF p \in productIds THEN 0 ELSE views[p]]
    /\ accessLogs' = [o \in OrderIds |->
                         IF o \in ordersOfProducts(productIds) THEN 0 ELSE accessLogs[o]]
    /\ accessAttempts' = [o \in OrderIds |->
                             IF o \in ordersOfProducts(productIds) THEN 0 ELSE accessAttempts[o]]
    /\ orders' = Remove(orders, ordersOfProducts(productIds))
    /\ sessions' = Remove(sessions, sessionsOfProducts(productIds))
    /\ products' = Remove(products, productIds)

\* a query that also takes the products created exactly one TTL ago
oldProductsInclusive == {p \in DOMAIN products : products[p].createdAt <= now - PRODUCT_TTL}

\* products.where("createdAt", "<", now - PRODUCT_TTL_MS)
oldProducts == {p \in DOMAIN products : products[p].createdAt < now - PRODUCT_TTL}

\* exports.cleanupOldProducts (scheduled), one whole run with no storage or
\* store failure
cleanupOldProducts ==
    /\ \/ /\ oldProducts = {}
          /\ UNCHANGED <<products, files, views, sessions, orders, accessAttempts, accessLogs,
                         swept>>
       \/ /\ oldProducts # {}
          /\ cascadeDelete(oldProducts)
          /\ swept' = swept \cup
                 {[pid |-> p,
                   orders |-> Cardinality({o \in DOMAIN orders : orders[o].productId = p}),
                   views |-> views[p],
                   kept |-> Cardinality(DOMAIN orders')] : p \in oldProducts}
    /\ UNCHANGED <<now, nextProduct, nextSession, checkouts, nextOrder, moneyVars, wh, ac, po, debits, hist,
                   deletedUsers, shippedCount, firstDevice>>

\* a deletion that takes the sellerAmount of the product's orders back from the
\* seller's balance
deleteProductRefunding(uid, productId, status) ==
    /\ productId \in DOMAIN products
    /\ products[productId].uid = uid
    /\ uid \in DOMAIN users
    /\ cascadeDelete({productId})
    /\ users' = [users EXCEPT ![uid].balance =
                     @ - SumInts([o \in 1..MaxOrders |->
                                     IF o \in ordersOfProducts({productId})
                                     THEN orders[o].sellerAmount ELSE 0])]
    /\ status = 200
    /\ UNCHANGED <<now, nextProduct, nextSession, checkouts, nextOrder, transactions,
                   payoutVars, historyVars>>

\* exports.deleteProduct
deleteProduct(uid, productId, status) ==
    /\ \/ /\ productId \notin DOMAIN products
          /\ status = 404
          /\ UNCHANGED <<products, files, views, sessions, orders, accessAttempts, accessLogs>>
       \/ /\ productId \in DOMAIN products
          /\ products[productId].uid # uid
          /\ status = 403
          /\ UNCHANGED <<products, files, views, sessions, orders, accessAttempts, accessLogs>>
       \/ /\ productId \in DOMAIN products
          /\ products[productId].uid = uid
          /\ cascadeDelete({productId})
          /\ status = 200
    /\ UNCHANGED <<now, nextProduct, nextSession, checkouts, nextOrder, moneyVars, historyVars>>

\* exports.deleteUserAccount: the user's products with their cascade, then the
\* user document; transactions and payoutHistory are left alone
deleteUserAccount(uid, status) ==
    /\ \/ /\ uid \notin DOMAIN users
          /\ status = 404
          /\ UNCHANGED <<products, files, views, sessions, orders, accessAttempts, accessLogs,
                         users, deletedUsers>>
       \/ /\ uid \in DOMAIN users
          /\ cascadeDelete({p \in DOMAIN products : products[p].uid = uid})
          /\ users' = Remove(users, {uid})
          /\ deletedUsers' = deletedUsers \cup {uid}
          /\ status = 200
    /\ UNCHANGED <<now, nextProduct, nextSession, checkouts, nextOrder, transactions,
                   payoutVars, wh, ac, po, debits, hist, shippedCount, swept, firstDevice>>

(* ---------------------------- content access ---------------------------- *)

\* an access that serves the content without reading the Product document
accessContentAnyProduct(token, userAgent, status) ==
    /\ token \in DOMAIN orders
    /\ extractDeviceInfo(userAgent).browser = orders[token].deviceInfo.browser
    /\ extractDeviceInfo(userAgent).os = orders[token].deviceInfo.os
    /\ accessLogs[token] < MaxAccess
    /\ accessLogs' = [accessLogs EXCEPT ![token] = @ + 1]
    /\ status = 200
    /\ UNCHANGED <<orders, accessAttempts, firstDevice, shippedCount>>
    /\ UNCHANGED <<now, catalogVars, checkoutVars, nextOrder, moneyVars, wh, ac, po, debits, hist, deletedUsers,
                   swept>>

\* exports.accessContent: the token is looked up among the orders (the model
\* names a token by the id of its order); the order's deviceInfo is compared
\* with the fingerprint of the userAgent parameter and is never written
accessContent(token, userAgent, status) ==
    /\ \/ /\ token \notin DOMAIN orders
          /\ status = 404
          /\ UNCHANGED <<orders, accessAttempts, accessLogs, firstDevice, shippedCount>>
       \/ /\ token \in DOMAIN orders
          /\ LET order == orders[token]
                 deviceInfo == extractDeviceInfo(userAgent)
                 isSameDevice == /\ deviceInfo.browser = order.deviceInfo.browser
                                 /\ deviceInfo.os = order.deviceInfo.os
             IN  /\ firstDevice' = IF firstDevice[token] = NoDevice
                                   THEN [firstDevice EXCEPT ![token] = deviceInfo]
                                   ELSE firstDevice
                 /\ \/ /\ ~isSameDevice
                       /\ accessAttempts[token] < MaxAccess
                       /\ accessAttempts' = [accessAttempts EXCEPT ![token] = @ + 1]
                       /\ status = 403
                       /\ UNCHANGED <<orders, accessLogs, shippedCount>>
                    \/ /\ isSameDevice
                       /\ order.productId \notin DOMAIN products
                       /\ status = 404
                       /\ UNCHANGED <<orders, accessAttempts, accessLogs, shippedCount>>
                    \/ /\ isSameDevice
                       /\ order.productId \in DOMAIN products
                       /\ accessLogs[token] < MaxAccess
                       /\ accessLogs' = [accessLogs EXCEPT ![token] = @ + 1]
                       /\ orders' = IF order.status = "completed"
                                    THEN [orders EXCEPT ![token].status = "shipped"]
                                    ELSE orders
                       /\ shippedCount' = IF order.status = "completed"
                                          THEN [shippedCount EXCEPT ![token] = @ + 1]
                                          ELSE shippedCount
                       /\ status = 200
                       /\ UNCHANGED accessAttempts
    /\ UNCHANGED <<now, catalogVars, checkoutVars, nextOrder, moneyVars, wh, ac, po, debits, hist, deletedUsers,
                   swept>>

(* -------------------------------- payouts ------------------------------- *)

isEmail(s) == s = "valid"

payoutRecord(userId, amount) ==
    [userId |-> userId, amount |-> amount - payoutFee(amount), grossAmount |-> amount,
     payoutFee |-> payoutFee(amount)]

payoutTransaction(userId, amount) ==
    [userId |-> userId, type |-> "payout", amount |-> amount - payoutFee(amount),
     grossAmount |-> amount, payoutFee |-> payoutFee(amount)]

\* payoutErrors.add, by processPayout or by the loop that called it
payoutError(userId, amount, source) == [userId |-> userId, amount |-> amount, source |-> source]

\* a conversion to cents that drops the fraction of a cent
truncate2(x) == (x \div (Dollar \div 100)) * (Dollar \div 100)

\* netAmount.toFixed(2), of a positive amount: rounded to the nearest cent
toFixed2(x) == ((x + Dollar \div 200) \div (Dollar \div 100)) * (Dollar \div 100)

\* the request that PayPal receives: the net amount in cents, for the user
paypalCall(userId, amount, accepted) ==
    [userId |-> userId, amount |-> toFixed2(amount - payoutFee(amount)),
     accepted |-> accepted]

\* processPayout throws: the net amount is not positive, or PayPal refuses
payoutThrows(amount, paypalOk) == amount - payoutFee(amount) <= 0 \/ ~paypalOk

\* a payout that debits what was transferred instead of the gross amount
processPayoutDebitNet(st, userId, amount, paypalOk) ==
    IF amount - payoutFee(amount) <= 0 THEN st
    ELSE IF ~paypalOk
    THEN [st EXCEPT !.paypalCalls = Append(@, paypalCall(userId, amount, FALSE)),
                    !.payoutErrors = AddDoc(@, payoutError(userId, amount, "processPayout"))]
    ELSE [st EXCEPT !.paypalCalls = Append(@, paypalCall(userId, amount, TRUE)),
                    !.users = [@ EXCEPT ![userId].balance = @ - (amount - payoutFee(amount))],
                    !.payoutHistory = AddDoc(@, payoutRecord(userId, amount)),
                    !.transactions = AddDoc(@, payoutTransaction(userId, amount))]

\* a payout that debits the balance before it calls PayPal
processPayoutDebitFirst(st, userId, amount, paypalOk) ==
    IF amount - payoutFee(amount) <= 0 THEN st
    ELSE LET debited == [st EXCEPT !.users = [@ EXCEPT ![userId].balance = @ - amount]] IN
         IF ~paypalOk
         THEN [debited EXCEPT !.paypalCalls = Append(@, paypalCall(userId, amount, FALSE)),
                              !.payoutErrors =
                                  AddDoc(@, payoutError(userId, amount, "processPayout"))]
         ELSE [debited EXCEPT !.paypalCalls = Append(@, paypalCall(userId, amount, TRUE)),
                              !.payoutHistory = AddDoc(@, payoutRecord(userId, amount)),
                              !.transactions = AddDoc(@, payoutTransaction(userId, amount))]

\* processPayout(userId, amount, paypalEmail) on the ledger st; paypalOk says
\* whether the PayPal call succeeds.  A non-positive net amount throws before
\* the call.  On success the balance is debited by amount and both records are
\* added; on a refusal a payoutErrors row is added and the error is rethrown
processPayout(st, userId, amount, paypalOk) ==
    IF amount - payoutFee(amount) <= 0 THEN st
    ELSE IF ~paypalOk
    THEN [st EXCEPT !.paypalCalls = Append(@, paypalCall(userId, amount, FALSE)),
                    !.payoutErrors = AddDoc(@, payoutError(userId, amount, "processPayout"))]
    ELSE [st EXCEPT !.paypalCalls = Append(@, paypalCall(userId, amount, TRUE)),
                    !.users = [@ EXCEPT ![userId].balance = @ - amount],
                    !.payoutHistory = AddDoc(@, payoutRecord(userId, amount)),
                    !.transactions = AddDoc(@, payoutTransaction(userId, amount))]

\* the rows that the step adds to a collection
NewRows(before, after) == {after[i] : i \in (Len(before) + 1)..Len(after)}

\* the history of u after a run that left the ledger st: a payout of the run
\* was accepted by PayPal for the gross amount, and debited it
debited(u, st) ==
    LET paid == {row \in NewRows(payoutHistory, st.payoutHistory) : row.userId = u}
        amount == IF paid = {} THEN 0 ELSE users[u].balance
    IN  [count |-> debits[u].count + Cardinality(paid),
         amount |-> debits[u].amount + amount,
         sent |-> debits[u].sent + amount]

\* the part of the store that a payout run writes
ledger ==
    [users |-> users, payoutHistory |-> payoutHistory, transactions |-> transactions,
     payoutErrors |-> payoutErrors, paypalCalls |-> paypalCalls]

\* users.where("balance", ">=", MIN_PAYOUT).where("paypalEmail", "!=", null)
payoutCandidates ==
    {u \in DOMAIN users : users[u].balance >= MIN_PAYOUT /\ users[u].paypalEmail # "none"}

Perms(S) ==
    {q \in [1..Cardinality(S) -> S] : \A i, j \in 1..Cardinality(S) : i # j => q[i] # q[j]}

RECURSIVE payoutLoopAbort(_, _, _)
\* a loop that gives up the run at the first payout that fails
payoutLoopAbort(queue, paypalOk, st) ==
    IF queue = <<>> THEN st
    ELSE LET userId == Head(queue)
             balance == users[userId].balance
             paid == processPayout(st, userId, balance, userId \in paypalOk)
         IN  IF ~isEmail(users[userId].paypalEmail) \/ balance < MIN_PAYOUT
             THEN payoutLoopAbort(Tail(queue), paypalOk, st)
             ELSE IF payoutThrows(balance, userId \in paypalOk)
             THEN [paid EXCEPT !.payoutErrors =
                      AddDoc(@, payoutError(userId, balance, "processWeeklyPayouts"))]
             ELSE payoutLoopAbort(Tail(queue), paypalOk, paid)

RECURSIVE payoutLoop(_, _, _)
\* for (const userDoc of usersSnap.docs): each user is paid the balance the
\* query returned; a failure is caught, logged in payoutErrors, and the loop
\* goes on
payoutLoop(queue, paypalOk, st) ==
    IF queue = <<>> THEN st
    ELSE LET userId == Head(queue)
             balance == users[userId].balance
             paid == processPayout(st, userId, balance, userId \in paypalOk)
             after == IF ~isEmail(users[userId].paypalEmail) \/ balance < MIN_PAYOUT
                      THEN st
                      ELSE IF payoutThrows(balance, userId \in paypalOk)
                      THEN [paid EXCEPT !.payoutErrors =
                               AddDoc(@, payoutError(userId, balance, "processWeeklyPayouts"))]
                      ELSE paid
         IN  payoutLoop(Tail(queue), paypalOk, after)

\* a low-balance query that finds nobody
lowBalanceNobody(accounts) == {}

\* users.where("balance", ">", 0).where("balance", "<", MIN_PAYOUT)
\*      .where("paypalEmail", "!=", null), on the accounts as the loop left them
lowBalanceUsers(accounts) ==
    {u \in DOMAIN accounts : /\ accounts[u].balance > 0
                             /\ accounts[u].balance < MIN_PAYOUT
                             /\ accounts[u].paypalEmail # "none"}

\* exports.processWeeklyPayouts (scheduled), one whole run; the query returns
\* the candidates in some order, and PayPal accepts the payouts of paypalOk.
\* The notice goes to the account's email, when it has a well-formed one
processWeeklyPayouts(queue, paypalOk) ==
    /\ queue \in Perms(payoutCandidates)
    /\ paypalOk \subseteq payoutCandidates
    /\ LET st == payoutLoop(queue, paypalOk, ledger)
           noticed == {u \in lowBalanceUsers(st.users) : isEmail(st.users[u].email)}
       IN  /\ users' = st.users
           /\ payoutHistory' = st.payoutHistory
           /\ transactions' = st.transactions
           /\ payoutErrors' = st.payoutErrors
           /\ paypalCalls' = st.paypalCalls
           /\ notices' = [u \in DOMAIN notices |-> IF u \in noticed THEN notices[u] + 1
                                                   ELSE notices[u]]
           /\ st.payoutErrors # payoutErrors => Len(payoutErrors) < MaxPayoutErrors
           /\ \A u \in noticed : notices[u] < MaxNotices
           /\ debits' = [u \in DOMAIN debits |-> debited(u, st)]
    /\ UNCHANGED <<now, catalogVars, checkoutVars, orderVars, wh, ac, po, hist, deletedUsers, shippedCount,
                   swept, firstDevice>>

\* weeklyPayouts: users.where("balance", ">", 0), split in memory
eligibleUsers ==
    {u \in DOMAIN users : users[u].balance >= MIN_PAYOUT /\ isEmail(users[u].paypalEmail)}
ineligibleUsers ==
    {u \in DOMAIN users : /\ u \notin eligibleUsers
                          /\ users[u].balance > 0
                          /\ isEmail(users[u].paypalEmail)}

RECURSIVE processOneLoop(_, _, _)
\* for (const user of eligibleUsers) await processOne(user)
processOneLoop(queue, paypalOk, st) ==
    IF queue = <<>> THEN st
    ELSE LET userId == Head(queue)
             balance == users[userId].balance
             paid == processPayout(st, userId, balance, userId \in paypalOk)
             after == IF payoutThrows(balance, userId \in paypalOk)
                      THEN [paid EXCEPT !.payoutErrors =
                               AddDoc(@, payoutError(userId, balance, "weeklyPayouts"))]
                      ELSE paid
         IN  processOneLoop(Tail(queue), paypalOk, after)

\* exports.weeklyPayouts (pub/sub), one whole run: the notices go to the PayPal
\* address of the ineligible users, then the eligible ones are paid by
\* decreasing balance
weeklyPayouts(queue, paypalOk) ==
    /\ queue \in Perms(eligibleUsers)
    /\ \A i, j \in 1..Len(queue) : i < j => users[queue[i]].balance >= users[queue[j]].balance
    /\ paypalOk \subseteq eligibleUsers
    /\ LET st == processOneLoop(queue, paypalOk, ledger)
       IN  /\ users' = st.users
           /\ payoutHistory' = st.payoutHistory
           /\ transactions' = st.transactions
           /\ payoutErrors' = st.payoutErrors
           /\ paypalCalls' = st.paypalCalls
           /\ notices' = [u \in DOMAIN notices |-> IF u \in ineligibleUsers
                                                   THEN notices[u] + 1 ELSE notices[u]]
           /\ st.payoutErrors # payoutErrors => Len(payoutErrors) < MaxPayoutErrors
           /\ \A u \in ineligibleUsers : notices[u] < MaxNotices
           /\ debits' = [u \in DOMAIN debits |-> debited(u, st)]
    /\ UNCHANGED <<now, catalogVars, checkoutVars, orderVars, wh, ac, po, hist, deletedUsers, shippedCount,
                   swept, firstDevice>>

\* exports.updatePaypalEmail: a malformed address is refused; otherwise the
\* address is merged into the account, which is created when it does not exist
\* (then without contact email, and with no balance yet)
updatePaypalEmail(uid, emailOk, status) ==
    /\ \/ /\ ~emailOk
          /\ status = 400
          /\ UNCHANGED users
       \/ /\ emailOk
          /\ status = 200
          /\ users' = IF uid \in DOMAIN users
                      THEN [users EXCEPT ![uid].paypalEmail = "valid"]
                      ELSE Put(users, uid, [balance |-> 0, paypalEmail |-> "valid",
                                            email |-> "none"])
    /\ UNCHANGED <<now, catalogVars, checkoutVars, orderVars, transactions, payoutVars,
                   historyVars>>

Metadata == [sid : SessionIds, pid : ProductIds, seller : Users]

\* the delivery of the checkout.session.completed event of a checkout, signed
Completed(m) ==
    [signed |-> TRUE, type |-> CheckoutCompleted, complete |-> TRUE,
     sid |-> m.sid, pid |-> m.pid, seller |-> m.seller]

\* every delivery: signed by Stripe or not, of either type, with or without
\* the metadata that fulfilment needs
Events ==
    [signed : BOOLEAN, type : EventTypes, complete : BOOLEAN,
     sid : SessionIds, pid : ProductIds, seller : Users]

Sellers == {"u1"}

\* settlement and lifecycle: every handler as one step, responses not recorded
Next ==
    \/ Tick /\ UNCHANGED resp /\ UNCHANGED jobVars
    \/ \E uid \in Sellers, price \in PriceInputs, status \in StatusCodes :
           createProduct(uid, price, status) /\ UNCHANGED resp /\ UNCHANGED jobVars
    \/ \E productId \in ProductIds : uploadFile(productId) /\ UNCHANGED resp /\ UNCHANGED jobVars
    \/ \E productId \in ProductIds, status \in StatusCodes :
           getProductDetails(productId, status) /\ UNCHANGED resp /\ UNCHANGED jobVars
    \/ \E emailOk \in BOOLEAN, productId \in ProductIds, status \in StatusCodes :
           collectBuyerEmail(emailOk, productId, status) /\ UNCHANGED resp /\ UNCHANGED jobVars
    \/ \E productId \in ProductIds, sessionId \in SessionIds, status \in StatusCodes :
           createStripeCheckoutSession(productId, sessionId, status) /\ UNCHANGED resp /\ UNCHANGED jobVars
    \/ \E evt \in Metadata, status \in StatusCodes :
           stripeWebhook(Completed(evt), status) /\ UNCHANGED resp /\ UNCHANGED jobVars
    \/ cleanupOldProducts /\ UNCHANGED resp /\ UNCHANGED jobVars
    \/ \E uid \in Users, productId \in ProductIds, status \in StatusCodes :
           deleteProduct(uid, productId, status) /\ UNCHANGED resp /\ UNCHANGED jobVars
    \/ \E uid \in Sellers, status \in StatusCodes : deleteUserAccount(uid, status) /\ UNCHANGED resp /\ UNCHANGED jobVars
    \/ \E queue \in Perms(payoutCandidates) :
           processWeeklyPayouts(queue, payoutCandidates) /\ UNCHANGED resp /\ UNCHANGED jobVars

Spec == Init /\ [][Next]_vars

(* ------------------------ idempotent fulfilment ------------------------- *)

\* C1: for every payment session, however many times its checkout-completed
\* event is delivered one delivery after the other, fulfilment has created at
\* most one Order, one balance credit and one sale Transaction for it, and
\* exactly one of each once the session is completed
IdempotentFulfilment ==
    \A s \in SessionIds :
        /\ hist[s].orders <= 1
        /\ hist[s].credits <= 1
        /\ hist[s].sales <= 1
        /\ (s \in DOMAIN sessions /\ sessions[s].completed) =>
               /\ hist[s].orders = 1
               /\ hist[s].credits = 1
               /\ hist[s].sales = 1
               /\ Len(SelectSeq(transactions,
                                LAMBDA t : t.type = "sale" /\ t.orderId = sessions[s].orderId)) = 1

\* a completed session whose event has been delivered again
RedeliveredSession ==
    \E s \in SessionIds :
        /\ s \in DOMAIN sessions
        /\ sessions[s].completed
        /\ hist[s].replayed
        /\ hist[s].orders = 1
        /\ hist[s].credits = 1
        /\ hist[s].sales = 1

(* -------------------------------- ledger -------------------------------- *)

\* the rows of the given type that the ledger holds for user u
LedgerRows(u, type) == SelectSeq(transactions, LAMBDA t : t.userId = u /\ t.type = type)

\* the sums of the fields amount and grossAmount over those rows
AmountTotal(u, type) ==
    LET rows == LedgerRows(u, type) IN SumInts([i \in 1..Len(rows) |-> rows[i].amount])
GrossTotal(u, type) ==
    LET rows == LedgerRows(u, type) IN SumInts([i \in 1..Len(rows) |-> rows[i].grossAmount])

LedgerAppendOnly ==
    [][IsPrefix(transactions, transactions') /\ IsPrefix(payoutHistory, payoutHistory')]_vars

\* sales and a payout are on record, and the seller's account, products and
\* orders have since been deleted
LedgerOutlivesDeletion ==
    /\ Len(transactions) >= 3
    /\ payoutHistory # <<>>
    /\ nextOrder > 1
    /\ orders = Empty
    /\ products = Empty
    /\ deletedUsers # {}

(* ---------------------------- expiration sweep --------------------------- *)

\* C5 as stated: every Order that exists before a cleanupOldProducts run still
\* exists after it
CleanupKeepsEveryOrder ==
    [][cleanupOldProducts =>
           \A o \in DOMAIN orders : o \in DOMAIN orders' /\ orders'[o] = orders[o]]_vars

\* C5 amended: every Order that exists before a cleanupOldProducts run and does
\* not belong to a product that the run purges still exists, unchanged, after it
CleanupKeepsOtherOrders ==
    [][cleanupOldProducts =>
           \A o \in DOMAIN orders :
               ~(\E p \in DOMAIN products :
                     /\ products[p].createdAt < now - PRODUCT_TTL
                     /\ orders[o].productId = p)
                   => (o \in DOMAIN orders' /\ orders'[o] = orders[o])]_vars

\* a run has purged a product with its orders and kept the orders of another
SweptBesideKeptOrders ==
    \E r \in swept : r.orders >= 1 /\ r.kept >= 1 /\ orders # Empty

\* C6: in a cleanupOldProducts run without failure, for every product that is
\* expired when the run starts: afterwards the Product document, all of its
\* Orders and all of its view rows are gone, and the sale Transaction of each of
\* those Orders is still in the ledger
SweepPreservesLedger ==
    [][cleanupOldProducts =>
           \A p \in DOMAIN products : products[p].expiresAt < now =>
               /\ p \notin DOMAIN products'
               /\ views'[p] = 0
               /\ \A o \in DOMAIN orders : orders[o].productId = p =>
                      /\ o \notin DOMAIN orders'
                      /\ \E i \in 1..Len(transactions') :
                             /\ transactions'[i].type = "sale"
                             /\ transactions'[i].orderId = o
                             /\ transactions'[i] \in {transactions[j] : j \in 1..Len(transactions)}]_vars

\* a run has purged a product that had orders and views, and the ledger holds
\* the sales
SweptProductWithOrders ==
    \E r \in swept :
        /\ r.orders >= 1
        /\ r.views >= 1
        /\ r.pid \notin DOMAIN products
        /\ Len(SelectSeq(transactions, LAMBDA t : t.type = "sale")) >= r.orders

(* ------------------------ concurrent deliveries ------------------------- *)

\* exports.stripeWebhook one store operation at a time: each worker is one
\* invocation, holding its metadata and what it has read so far in wh
webhookVars == <<now, nextProduct, files, views, nextSession, checkouts, accessAttempts,
                 accessLogs, payoutVars, ac, po, debits, deletedUsers, shippedCount, swept,
                 firstDevice, resp>>

\* paymentSessionRef.get() and the replay check
whReadSession(w, evt) ==
    /\ wh[w].pc = "idle"
    /\ evt \in checkouts
    /\ IF evt.sid \in DOMAIN sessions /\ ~sessionCompleted(sessions[evt.sid])
       THEN wh' = [wh EXCEPT ![w] = [Idle EXCEPT !.pc = "session", !.sid = evt.sid,
                                                  !.pid = evt.pid, !.seller = evt.seller]]
       ELSE UNCHANGED wh
    /\ hist' = IF evt.sid \in DOMAIN sessions /\ sessionCompleted(sessions[evt.sid])
               THEN [hist EXCEPT ![evt.sid].replayed = TRUE]
               ELSE hist
    /\ UNCHANGED <<webhookVars, products, sessions, orders, nextOrder, users, transactions>>

\* products.doc(productId).get() and the expiry check
whReadProduct(w) ==
    /\ wh[w].pc = "session"
    /\ wh' = IF wh[w].pid \in DOMAIN products /\ ~IsExpired(products[wh[w].pid])
             THEN [wh EXCEPT ![w].pc = "product", ![w].price = products[wh[w].pid].price]
             ELSE [wh EXCEPT ![w] = Idle]
    /\ UNCHANGED <<webhookVars, products, sessions, orders, nextOrder, users, transactions,
                   hist>>

\* productFile.exists()
whFileExists(w) ==
    /\ wh[w].pc = "product"
    /\ wh' = IF wh[w].pid \in files
             THEN [wh EXCEPT ![w].pc = "file"]
             ELSE [wh EXCEPT ![w] = Idle]
    /\ UNCHANGED <<webhookVars, products, sessions, orders, nextOrder, users, transactions,
                   hist>>

\* orders.add
whAddOrder(w) ==
    /\ wh[w].pc = "file"
    /\ nextOrder <= MaxOrders
    /\ orders' = Put(orders, nextOrder, newOrder(wh[w].pid, wh[w].seller, wh[w].price))
    /\ nextOrder' = nextOrder + 1
    /\ wh' = [wh EXCEPT ![w].pc = "order", ![w].orderId = nextOrder]
    /\ hist' = [hist EXCEPT ![wh[w].sid].orders = @ + 1]
    /\ UNCHANGED <<webhookVars, products, sessions, users, transactions>>

\* products.doc(productId).update: fails on a missing document, and the
\* handler's catch answers 400
whUpdateProduct(w) ==
    /\ wh[w].pc = "order"
    /\ IF wh[w].pid \in DOMAIN products
       THEN /\ products' = [products EXCEPT
                               ![wh[w].pid].sales = @ + 1,
                               ![wh[w].pid].revenue = @ + sellerAmount(wh[w].price)]
            /\ wh' = [wh EXCEPT ![w].pc = "sales"]
       ELSE /\ wh' = [wh EXCEPT ![w] = Idle]
            /\ UNCHANGED products
    /\ UNCHANGED <<webhookVars, sessions, orders, nextOrder, users, transactions, hist>>

\* users.doc(sellerUid).set({balance: increment}, {merge: true})
whCreditSeller(w) ==
    /\ wh[w].pc = "sales"
    /\ users' = creditBalance(wh[w].seller, sellerAmount(wh[w].price))
    /\ wh' = [wh EXCEPT ![w].pc = "credit"]
    /\ hist' = [hist EXCEPT ![wh[w].sid].credits = @ + 1]
    /\ UNCHANGED <<webhookVars, products, sessions, orders, nextOrder, transactions>>

\* transactions.add
whAddTransaction(w) ==
    /\ wh[w].pc = "credit"
    /\ transactions' =
           AddDoc(transactions, saleTransaction(wh[w].seller, wh[w].orderId, wh[w].price))
    /\ wh' = [wh EXCEPT ![w].pc = "ledger"]
    /\ hist' = [hist EXCEPT ![wh[w].sid].sales = @ + 1]
    /\ UNCHANGED <<webhookVars, products, sessions, orders, nextOrder, users>>

\* paymentSessionRef.update({completed: true, orderId}), then the answer
whCompleteSession(w) ==
    /\ wh[w].pc = "ledger"
    /\ sessions' = IF wh[w].sid \in DOMAIN sessions
                   THEN [sessions EXCEPT ![wh[w].sid].completed = TRUE,
                                         ![wh[w].sid].orderId = wh[w].orderId,
                                         ![wh[w].sid].stripeStatus = "completed"]
                   ELSE sessions
    /\ wh' = [wh EXCEPT ![w] = Idle]
    /\ UNCHANGED <<webhookVars, products, orders, nextOrder, users, transactions, hist>>

\* two invocations of stripeWebhook at once, after the buyers' requests
NextRace ==
    \/ \E uid \in Sellers, price \in PriceInputs, status \in StatusCodes :
           createProduct(uid, price, status) /\ UNCHANGED resp /\ UNCHANGED jobVars
    \/ \E productId \in ProductIds : uploadFile(productId) /\ UNCHANGED resp /\ UNCHANGED jobVars
    \/ \E emailOk \in BOOLEAN, productId \in ProductIds, status \in StatusCodes :
           collectBuyerEmail(emailOk, productId, status) /\ UNCHANGED resp /\ UNCHANGED jobVars
    \/ \E productId \in ProductIds, sessionId \in SessionIds, status \in StatusCodes :
           createStripeCheckoutSession(productId, sessionId, status) /\ UNCHANGED resp /\ UNCHANGED jobVars
    \/ \E w \in Workers, evt \in Metadata : whReadSession(w, evt) /\ UNCHANGED jobVars
    \/ \E w \in Workers : whReadProduct(w) /\ UNCHANGED jobVars
    \/ \E w \in Workers : whFileExists(w) /\ UNCHANGED jobVars
    \/ \E w \in Workers : whAddOrder(w) /\ UNCHANGED jobVars
    \/ \E w \in Workers : whUpdateProduct(w) /\ UNCHANGED jobVars
    \/ \E w \in Workers : whCreditSeller(w) /\ UNCHANGED jobVars
    \/ \E w \in Workers : whAddTransaction(w) /\ UNCHANGED jobVars
    \/ \E w \in Workers : whCompleteSession(w) /\ UNCHANGED jobVars

SpecRace == Init /\ [][NextRace]_vars

\* C2: when deliveries of one session's checkout-completed event are handled
\* concurrently, at most one of them creates an Order, at most one credits the
\* seller and at most one appends a sale Transaction
AtMostOneDeliveryFulfils ==
    \A s \in SessionIds :
        /\ hist[s].orders <= 1
        /\ hist[s].credits <= 1
        /\ hist[s].sales <= 1

(* ------------------------------ read paths ------------------------------ *)

Request(op, pid, sid, emailOk, token, userAgent, status) ==
    [op |-> op, pid |-> pid, sid |-> sid, emailOk |-> emailOk, token |-> token,
     userAgent |-> userAgent, status |-> status]

\* the store once seller u1 has listed a product for 20 dollars and uploaded
\* its file (createProduct, uploadFile), all in the first tick
InitListed ==
    /\ now = 0
    /\ products = Put(Empty, 1, [uid |-> "u1", price |-> 20 * Dollar, createdAt |-> 0,
                                 expiresAt |-> getProductExpirationDate(0),
                                 sales |-> 0, revenue |-> 0])
    /\ nextProduct = 2
    /\ files = {1}
    /\ views = [p \in ProductIds |-> 0]
    /\ sessions = Empty
    /\ nextSession = 1
    /\ checkouts = {}
    /\ orders = Empty
    /\ nextOrder = 1
    /\ accessAttempts = [o \in OrderIds |-> 0]
    /\ accessLogs = [o \in OrderIds |-> 0]
    /\ users = [u \in Users |-> [balance |-> 0, paypalEmail |-> "valid", email |-> "valid"]]
    /\ transactions = <<>>
    /\ payoutHistory = <<>>
    /\ payoutErrors = <<>>
    /\ paypalCalls = <<>>
    /\ notices = [u \in Users |-> 0]
    /\ resp = NoResponse
    /\ wh = [w \in Workers |-> Idle]
    /\ ac = [w \in Workers |-> NoAccess]
    /\ po = [j \in Jobs |-> NoJob]
    /\ debits = [u \in Users |-> NoDebits]
    /\ hist = [s \in SessionIds |-> NoHist]
    /\ deletedUsers = {}
    /\ shippedCount = [o \in OrderIds |-> 0]
    /\ swept = {}
    /\ firstDevice = [o \in OrderIds |-> NoDevice]
    /\ NoJobRecords

\* the buyers' requests on the way to a purchase, with their responses
\* observed, around that listing, sequential fulfilment and the sweep
NextGate ==
    \/ Tick /\ resp' = NoResponse /\ UNCHANGED jobVars
    \/ \E productId \in ProductIds, status \in StatusCodes :
           /\ getProductDetails(productId, status)
           /\ resp' = Request("getProductDetails", productId, 0, FALSE, 0, "", status) /\ UNCHANGED jobVars
    \/ \E emailOk \in BOOLEAN, productId \in ProductIds, status \in StatusCodes :
           /\ collectBuyerEmail(emailOk, productId, status)
           /\ resp' = Request("collectBuyerEmail", productId, 0, emailOk, 0, "", status) /\ UNCHANGED jobVars
    \/ \E productId \in ProductIds, sessionId \in SessionIds, status \in StatusCodes :
           /\ createStripeCheckoutSession(productId, sessionId, status)
           /\ resp' = Request("createStripeCheckoutSession", productId, sessionId, FALSE, 0, "",
                              status) /\ UNCHANGED jobVars
    \/ \E evt \in Metadata, status \in StatusCodes :
           stripeWebhook(Completed(evt), status) /\ resp' = NoResponse /\ UNCHANGED jobVars
    \/ cleanupOldProducts /\ resp' = NoResponse /\ UNCHANGED jobVars

SpecGate == InitListed /\ [][NextGate]_vars

\* the store once a buyer has bought that product in the first tick
\* (collectBuyerEmail, createStripeCheckoutSession, stripeWebhook)
InitSold ==
    /\ now = 0
    /\ products = Put(Empty, 1, [uid |-> "u1", price |-> 20 * Dollar, createdAt |-> 0,
                                 expiresAt |-> getProductExpirationDate(0),
                                 sales |-> 1, revenue |-> sellerAmount(20 * Dollar)])
    /\ nextProduct = 2
    /\ files = {1}
    /\ views = [p \in ProductIds |-> 0]
    /\ sessions = Put(Empty, 1, [productId |-> 1, completed |-> TRUE, orderId |-> 1,
                                 stripeStatus |-> "completed"])
    /\ nextSession = 2
    /\ checkouts = {[sid |-> 1, pid |-> 1, seller |-> "u1"]}
    /\ orders = Put(Empty, 1, newOrder(1, "u1", 20 * Dollar))
    /\ nextOrder = 2
    /\ accessAttempts = [o \in OrderIds |-> 0]
    /\ accessLogs = [o \in OrderIds |-> 0]
    /\ users = [u \in Users |-> [balance |-> IF u = "u1" THEN sellerAmount(20 * Dollar) ELSE 0,
                                 paypalEmail |-> "valid", email |-> "valid"]]
    /\ transactions = <<saleTransaction("u1", 1, 20 * Dollar)>>
    /\ payoutHistory = <<>>
    /\ payoutErrors = <<>>
    /\ paypalCalls = <<>>
    /\ notices = [u \in Users |-> 0]
    /\ resp = NoResponse
    /\ wh = [w \in Workers |-> Idle]
    /\ ac = [w \in Workers |-> NoAccess]
    /\ po = [j \in Jobs |-> NoJob]
    /\ debits = [u \in Users |-> NoDebits]
    /\ hist = [s \in SessionIds |->
                  IF s = 1 THEN [orders |-> 1, credits |-> 1, sales |-> 1, replayed |-> FALSE]
                  ELSE NoHist]
    /\ deletedUsers = {}
    /\ shippedCount = [o \in OrderIds |-> 0]
    /\ swept = {}
    /\ firstDevice = [o \in OrderIds |-> NoDevice]
    /\ NoJobRecords

\* the buyer's use of the access token, with the responses observed, while
\* time passes and the sweep runs
NextAccess ==
    \/ Tick /\ resp' = NoResponse /\ UNCHANGED jobVars
    \/ \E token \in OrderIds, userAgent \in UserAgents, status \in StatusCodes :
           /\ accessContent(token, userAgent, status)
           /\ resp' = Request("accessContent", 0, 0, FALSE, token, userAgent, status) /\ UNCHANGED jobVars
    \/ cleanupOldProducts /\ resp' = NoResponse /\ UNCHANGED jobVars

SpecAccess == InitSold /\ [][NextAccess]_vars

(* --------------------------- expiration gating --------------------------- *)

GateOps == {"getProductDetails", "collectBuyerEmail", "createStripeCheckoutSession"}

\* the step is a request of GateOps for a product that exists and whose
\* expiration time has passed
GateRequestOnExpired ==
    /\ resp'.op \in GateOps
    /\ resp'.pid \in DOMAIN products
    /\ products[resp'.pid].expiresAt < now

\* C7 as stated: for a product whose expiration time has passed and which the
\* sweep has not deleted, getProductDetails, collectBuyerEmail and
\* createStripeCheckoutSession each answer with the expired error (410) and
\* change no state
ExpiredProductAnswersExpired ==
    [][GateRequestOnExpired => (resp'.status = 410 /\ UNCHANGED storeVars)]_vars

\* C7 amended: for such a product the three requests change no state and answer
\* with an error, which is the expired error (410) for getProductDetails, for
\* collectBuyerEmail with a well-formed email, and for
\* createStripeCheckoutSession with a payment session that exists and is not
\* completed
ExpiredProductGated ==
    [][GateRequestOnExpired =>
           /\ UNCHANGED storeVars
           /\ resp'.status \in {400, 404, 410}
           /\ resp'.op = "getProductDetails" => resp'.status = 410
           /\ (resp'.op = "collectBuyerEmail" /\ resp'.emailOk) => resp'.status = 410
           /\ (/\ resp'.op = "createStripeCheckoutSession"
               /\ resp'.sid \in DOMAIN sessions
               /\ ~sessions[resp'.sid].completed) => resp'.status = 410]_vars

\* a checkout has just been refused for an expired product that is still in
\* the store, on a payment session that was collected for it before it expired
CheckoutRefusedOnExpired ==
    /\ resp.op = "createStripeCheckoutSession"
    /\ resp.status = 410
    /\ resp.pid \in DOMAIN products
    /\ products[resp.pid].expiresAt < now
    /\ resp.sid \in DOMAIN sessions
    /\ sessions[resp.sid].productId = resp.pid
    /\ checkouts = {}

\* C8: accessContent never answers with the file URL (200) for a product whose
\* expiration time has passed, swept or not
ExpiredContentNotServed ==
    [][(/\ resp'.op = "accessContent"
        /\ resp'.token \in DOMAIN orders
        /\ orders[resp'.token].productId \in DOMAIN products
        /\ products[orders[resp'.token].productId].expiresAt < now)
           => resp'.status # 200]_vars

(* ----------------------------- device binding ---------------------------- *)

\* C9: the first accessContent call for an Order, from any fingerprint F, is
\* granted and leaves F as the Order's stored fingerprint
FirstAccessBindsDevice ==
    [][(/\ resp'.op = "accessContent"
        /\ resp'.token \in DOMAIN orders
        /\ firstDevice[resp'.token] = NoDevice)
           => /\ resp'.status = 200
              /\ orders'[resp'.token].deviceInfo = extractDeviceInfo(resp'.userAgent)]_vars

\* C10: after the first access to an Order from fingerprint F, a later call
\* from another fingerprint is refused (403) and adds an access-attempt row, and
\* a later call from F is granted while the product exists
BoundDeviceEnforced ==
    [][(/\ resp'.op = "accessContent"
        /\ resp'.token \in DOMAIN orders
        /\ orders[resp'.token].productId \in DOMAIN products
        /\ firstDevice[resp'.token] # NoDevice)
           => IF extractDeviceInfo(resp'.userAgent) = firstDevice[resp'.token]
              THEN resp'.status = 200
              ELSE /\ resp'.status = 403
                   /\ accessAttempts'[resp'.token] = accessAttempts[resp'.token] + 1]_vars

(* ------------------------------ payout runs ------------------------------ *)

Payees == {"a", "b", "c"}

\* what each payee has sold before the run: nothing, or one product at $10 or
\* at $20 (the balance is then 8.21 or 16.72)
SoldPrices == {0, 10 * Dollar, 20 * Dollar}

\* the accounts before a payout run: every payee has sold at most one product,
\* whose order the sweep has purged since; the PayPal address is absent, or
\* malformed (written by the client), or well-formed; the contact email is
\* absent on an account that the functions created
InitPayout ==
    /\ now = 0
    /\ products = Empty
    /\ nextProduct = 1
    /\ files = {}
    /\ views = [p \in ProductIds |-> 0]
    /\ sessions = Empty
    /\ nextSession = 1
    /\ checkouts = {}
    /\ orders = Empty
    /\ nextOrder = 1
    /\ accessAttempts = [o \in OrderIds |-> 0]
    /\ accessLogs = [o \in OrderIds |-> 0]
    /\ \E sold \in [Payees -> SoldPrices],
          paypalEmail \in [Payees -> {"none", "invalid", "valid"}],
          email \in [Payees -> {"none", "valid"}] :
          /\ users = [u \in Payees |-> [balance |-> IF sold[u] = 0 THEN 0
                                                    ELSE sellerAmount(sold[u]),
                                        paypalEmail |-> paypalEmail[u],
                                        email |-> email[u]]]
          /\ transactions = SelectSeq(<<saleTransaction("a", 1, sold["a"]),
                                        saleTransaction("b", 2, sold["b"]),
                                        saleTransaction("c", 3, sold["c"])>>,
                                      LAMBDA row : row.grossAmount > 0)
    /\ payoutHistory = <<>>
    /\ payoutErrors = <<>>
    /\ paypalCalls = <<>>
    /\ notices = [u \in Payees |-> 0]
    /\ resp = NoResponse
    /\ wh = [w \in Workers |-> Idle]
    /\ ac = [w \in Workers |-> NoAccess]
    /\ po = [j \in Jobs |-> NoJob]
    /\ debits = [u \in Payees |-> NoDebits]
    /\ hist = [s \in SessionIds |-> NoHist]
    /\ deletedUsers = {}
    /\ shippedCount = [o \in OrderIds |-> 0]
    /\ swept = {}
    /\ firstDevice = [o \in OrderIds |-> NoDevice]
    /\ NoJobRecords

\* the operation that a step of the payout specification runs
Ran(op) == Request(op, 0, 0, FALSE, 0, "", 0)

\* the two payout runs and the onboarding request, with any outcome of the
\* PayPal calls
NextPayout ==
    \/ \E uid \in Payees, emailOk \in BOOLEAN, status \in StatusCodes :
           /\ updatePaypalEmail(uid, emailOk, status)
           /\ resp' = Request("updatePaypalEmail", 0, 0, emailOk, 0, "", status) /\ UNCHANGED jobVars
    \/ \E paypalOk \in SUBSET Payees, queue \in Perms(payoutCandidates) :
           /\ processWeeklyPayouts(queue, paypalOk)
           /\ resp' = Ran("processWeeklyPayouts") /\ UNCHANGED jobVars
    \/ \E paypalOk \in SUBSET Payees, queue \in Perms(eligibleUsers) :
           /\ weeklyPayouts(queue, paypalOk)
           /\ resp' = Ran("weeklyPayouts") /\ UNCHANGED jobVars

SpecPayout == InitPayout /\ [][NextPayout]_vars

PayoutRuns == {"processWeeklyPayouts", "weeklyPayouts"}

\* the step sends PayPal a payout request for u
CalledFor(u) ==
    \E i \in (Len(paypalCalls) + 1)..Len(paypalCalls') : paypalCalls'[i].userId = u

\* u cannot be paid: the balance is below the threshold or the PayPal address
\* is absent or malformed
BelowOrNoDestination(u) ==
    users[u].balance < MIN_PAYOUT \/ users[u].paypalEmail # "valid"

\* u is owed a notice: a positive balance below the threshold, payable address
LowWithDestination(u) ==
    /\ users[u].balance > 0
    /\ users[u].balance < MIN_PAYOUT
    /\ users[u].paypalEmail = "valid"

Cent == Dollar \div 100

\* the users whose payout PayPal accepts in the step
PaidInStep ==
    {row.userId : row \in {r \in NewRows(paypalCalls, paypalCalls') : r.accepted}}

\* the step debits u by exactly its balance G and records G minus the fee on
\* one new PayoutRecord
DebitedGrossRecordedNet(u) ==
    LET G == users[u].balance IN
    /\ users'[u].balance = users[u].balance - G
    /\ \E row \in NewRows(payoutHistory, payoutHistory') :
           /\ row.userId = u
           /\ row.grossAmount = G
           /\ row.amount = G - payoutFee(G)

\* C12 as stated: for every user paid by a payout run with gross amount G,
\* the balance is debited by exactly G, and the amount sent to PayPal and the
\* amount on the PayoutRecord are both G minus the payout fee
PayoutSendsExactNet ==
    [][resp'.op \in PayoutRuns =>
          \A u \in PaidInStep :
              /\ DebitedGrossRecordedNet(u)
              /\ \A call \in NewRows(paypalCalls, paypalCalls') :
                     call.userId = u => call.amount = users[u].balance - payoutFee(users[u].balance)]_vars

\* C12, amended: for every user paid by a payout run with gross amount G, the
\* balance is debited by exactly G (the fee is not added to the debit), the
\* PayoutRecord carries G minus the payout fee, and the amount sent to PayPal
\* is G minus the payout fee rounded to the nearest cent
PayoutSendsNetInCents ==
    [][resp'.op \in PayoutRuns =>
          \A u \in PaidInStep :
              /\ DebitedGrossRecordedNet(u)
              /\ \A call \in NewRows(paypalCalls, paypalCalls') :
                     call.userId = u =>
                         LET net == users[u].balance - payoutFee(users[u].balance) IN
                         /\ call.amount % Cent = 0
                         /\ 2 * (call.amount - net) <= Cent
                         /\ 2 * (net - call.amount) < Cent]_vars

\* a payee has been paid: the balance is 0, and PayPal was sent an amount in
\* cents that is not the amount on the PayoutRecord
PaidRoundedNet ==
    /\ resp.op \in PayoutRuns
    /\ \E i \in 1..Len(paypalCalls), j \in 1..Len(payoutHistory) :
          /\ paypalCalls[i].accepted
          /\ payoutHistory[j].userId = paypalCalls[i].userId
          /\ payoutHistory[j].amount # paypalCalls[i].amount
          /\ users[paypalCalls[i].userId].balance = 0

(* --------------------------- failures in a run --------------------------- *)

\* u is eligible for a payout: payable balance, well-formed PayPal address
Eligible(u) == users[u].balance >= MIN_PAYOUT /\ users[u].paypalEmail = "valid"

\* C13: in a payout run, whichever payouts PayPal refuses and wherever they
\* come in the run, every eligible user is processed (PayPal is called once
\* for it), and each one whose call is accepted gets its balance debit, its
\* PayoutRecord and its payout Transaction
FailureDoesNotStopRun ==
    [][resp'.op \in PayoutRuns =>
          \A u \in DOMAIN users :
              Eligible(u) =>
                  /\ Cardinality({i \in (Len(paypalCalls) + 1)..Len(paypalCalls') :
                                     paypalCalls'[i].userId = u}) = 1
                  /\ u \in PaidInStep =>
                        /\ users'[u].balance = 0
                        /\ \E row \in NewRows(payoutHistory, payoutHistory') :
                               row.userId = u /\ row.grossAmount = users[u].balance
                        /\ \E row \in NewRows(transactions, transactions') :
                               /\ row.userId = u
                               /\ row.type = "payout"
                               /\ row.grossAmount = users[u].balance]_vars

\* the payout of b was refused first, and a and c were paid after it in the
\* same run: their balances are 0 and each has its PayoutRecord and Transaction
PaidAfterRefusal ==
    /\ resp.op \in PayoutRuns
    /\ Len(paypalCalls) = 3
    /\ paypalCalls[1].userId = "b" /\ ~paypalCalls[1].accepted
    /\ users["b"].balance >= MIN_PAYOUT
    /\ \A i \in 2..3 : paypalCalls[i].accepted
    /\ \A u \in {"a", "c"} :
          /\ users[u].balance = 0
          /\ \E i \in 2..3 : paypalCalls[i].userId = u
          /\ \E j \in 1..Len(payoutHistory) : payoutHistory[j].userId = u
          /\ \E j \in 1..Len(transactions) :
                 transactions[j].userId = u /\ transactions[j].type = "payout"

(* ---------------------------- payment sessions --------------------------- *)

\* C14: the completed flag of a PaymentSession, once true, is never set back
\* to false, and every PaymentSession with completed = true links to an Order
\* and is the only Order that its fulfilment created
CompletedOnceWithOneOrder ==
    [][\A s \in DOMAIN sessions' :
          /\ (s \in DOMAIN sessions /\ sessions[s].completed) => sessions'[s].completed
          /\ sessions'[s].completed =>
                /\ sessions'[s].orderId \in 1..(nextOrder' - 1)
                /\ hist'[s].orders = 1]_vars

(* ----------------------------- order status ------------------------------ *)

\* accessContent invocations of worker w that have read the order of the token
\* and not yet written
InFlight(token) == Cardinality({w \in Workers : ac[w].pc = "granted" /\ ac[w].token = token})

\* accessContent up to the last read: the order is read once (ordersSnap), the
\* refusals are answered at once, and a granted invocation goes on to its
\* writes holding the order as it has read it
acRead(w, token, userAgent, status) ==
    /\ ac[w].pc = "idle"
    /\ \/ /\ status # 200
          /\ accessContent(token, userAgent, status)
       \/ /\ status = 0
          /\ token \in DOMAIN orders
          /\ extractDeviceInfo(userAgent).browser = orders[token].deviceInfo.browser
          /\ extractDeviceInfo(userAgent).os = orders[token].deviceInfo.os
          /\ orders[token].productId \in DOMAIN products
          /\ accessLogs[token] + InFlight(token) < MaxAccess
          /\ ac' = [ac EXCEPT ![w] = [pc |-> "granted", token |-> token,
                                      status |-> orders[token].status]]
          /\ firstDevice' = IF firstDevice[token] = NoDevice
                            THEN [firstDevice EXCEPT ![token] = extractDeviceInfo(userAgent)]
                            ELSE firstDevice
          /\ UNCHANGED <<now, catalogVars, checkoutVars, orderVars, moneyVars, wh, po, debits,
                         hist, deletedUsers, shippedCount, swept>>

\* accessContent from accessLogs.add to the response: the status is written
\* when the order that was read had status completed
acShip(w, status) ==
    /\ ac[w].pc = "granted"
    /\ accessLogs' = [accessLogs EXCEPT ![ac[w].token] = @ + 1]
    /\ IF ac[w].status # "completed"
       THEN status = 200 /\ UNCHANGED <<orders, shippedCount>>
       ELSE IF ac[w].token \in DOMAIN orders
       THEN /\ status = 200
            /\ orders' = [orders EXCEPT ![ac[w].token].status = "shipped"]
            /\ shippedCount' = [shippedCount EXCEPT ![ac[w].token] = @ + 1]
       ELSE status = 500 /\ UNCHANGED <<orders, shippedCount>>
    /\ ac' = [ac EXCEPT ![w] = NoAccess]
    /\ UNCHANGED <<now, catalogVars, checkoutVars, nextOrder, accessAttempts, moneyVars, wh,
                   po, debits, hist, deletedUsers, swept, firstDevice>>

\* the external cancellation of an order that has not been shipped
cancelOrder(orderId) ==
    /\ orderId \in DOMAIN orders
    /\ orders[orderId].status = "completed"
    /\ orders' = [orders EXCEPT ![orderId].status = "cancelled"]
    /\ UNCHANGED <<now, catalogVars, checkoutVars, nextOrder, accessAttempts, accessLogs,
                   moneyVars, historyVars>>

\* concurrent accessContent calls on the order of InitSold, and its
\* cancellation from outside
NextShip ==
    \/ \E w \in Workers, token \in OrderIds, userAgent \in UserAgents,
          status \in StatusCodes \cup {0} :
           /\ acRead(w, token, userAgent, status)
           /\ resp' = Request("accessContent", 0, 0, FALSE, token, userAgent, status) /\ UNCHANGED jobVars
    \/ \E w \in Workers, status \in StatusCodes \cup {500} :
           /\ acShip(w, status)
           /\ resp' = Request("accessContent", 0, 0, FALSE, ac[w].token, "", status) /\ UNCHANGED jobVars
    \/ \E orderId \in OrderIds : cancelOrder(orderId) /\ resp' = NoResponse /\ UNCHANGED jobVars

SpecShip == InitSold /\ [][NextShip]_vars

\* C15: an Order whose status is shipped or cancelled never changes status
\* again, under any interleaving of accessContent calls with an external
\* cancellation
ShippedAndCancelledAreFinal ==
    [][\A o \in DOMAIN orders \cap DOMAIN orders' :
          orders[o].status \in {"shipped", "cancelled"} =>
              orders'[o].status = orders[o].status]_vars

(* --------------------------- webhook deliveries -------------------------- *)

\* the store once seller u1 has listed two products at the given prices and
\* uploaded the file of the first, and a buyer of each has given an email and
\* opened a checkout (createProduct, uploadFile, collectBuyerEmail,
\* createStripeCheckoutSession), all in the first tick
OpenCheckouts(price) ==
    /\ now = 0
    /\ products = [p \in {1, 2} |->
                      [uid |-> "u1", price |-> price[p], createdAt |-> 0,
                       expiresAt |-> getProductExpirationDate(0), sales |-> 0, revenue |-> 0]]
    /\ nextProduct = 3
    /\ files = {1}
    /\ views = [p \in ProductIds |-> 0]
    /\ sessions = [x \in {1, 2} |->
                      [productId |-> x, completed |-> FALSE, orderId |-> 0,
                       stripeStatus |-> "created"]]
    /\ nextSession = 3
    /\ checkouts = {[sid |-> x, pid |-> x, seller |-> "u1"] : x \in {1, 2}}
    /\ orders = Empty
    /\ nextOrder = 1
    /\ accessAttempts = [o \in OrderIds |-> 0]
    /\ accessLogs = [o \in OrderIds |-> 0]
    /\ users = [u \in Users |-> [balance |-> 0, paypalEmail |-> "valid", email |-> "valid"]]
    /\ transactions = <<>>
    /\ payoutHistory = <<>>
    /\ payoutErrors = <<>>
    /\ paypalCalls = <<>>
    /\ notices = [u \in Users |-> 0]
    /\ resp = NoResponse
    /\ wh = [w \in Workers |-> Idle]
    /\ ac = [w \in Workers |-> NoAccess]
    /\ po = [j \in Jobs |-> NoJob]
    /\ debits = [u \in Users |-> NoDebits]
    /\ hist = [s \in SessionIds |-> NoHist]
    /\ deletedUsers = {}
    /\ shippedCount = [o \in OrderIds |-> 0]
    /\ swept = {}
    /\ firstDevice = [o \in OrderIds |-> NoDevice]
    /\ NoJobRecords

\* both products listed for 20 dollars
InitCheckout == OpenCheckouts([p \in {1, 2} |-> 20 * Dollar])

\* a webhook delivery and the status of its response
Delivered(evt, status) == [op |-> "stripeWebhook", evt |-> evt, status |-> status]

\* every kind of delivery to the webhook, with the responses observed, while
\* time passes, the second file is uploaded and products are deleted
NextHook ==
    \/ Tick /\ resp' = NoResponse /\ UNCHANGED jobVars
    \/ \E productId \in ProductIds : uploadFile(productId) /\ resp' = NoResponse /\ UNCHANGED jobVars
    \/ \E evt \in Events, status \in StatusCodes :
           stripeWebhook(evt, status) /\ resp' = Delivered(evt, status) /\ UNCHANGED jobVars
    \/ \E uid \in Users, productId \in ProductIds, status \in StatusCodes :
           deleteProduct(uid, productId, status) /\ resp' = NoResponse /\ UNCHANGED jobVars
    \/ cleanupOldProducts /\ resp' = NoResponse /\ UNCHANGED jobVars

SpecHook == InitCheckout /\ [][NextHook]_vars

\* the response just observed is that of a webhook delivery
IsDelivery == resp'.op = "stripeWebhook"

\* the delivery cannot be fulfilled: another event type, metadata missing, no
\* PaymentSession, no Product or an expired one, or no file in storage
Unfulfillable(evt) ==
    \/ evt.type # CheckoutCompleted
    \/ ~evt.complete
    \/ evt.sid \notin DOMAIN sessions
    \/ evt.pid \notin DOMAIN products
    \/ products[evt.pid].expiresAt < now
    \/ evt.pid \notin files

UnsignedIsRejected ==
    [][(IsDelivery /\ ~resp'.evt.signed) =>
          /\ resp'.status = 400
          /\ UNCHANGED <<orders, nextOrder, users, transactions, products, sessions>>]_vars

\* a forged delivery that names an open checkout, complete in every other
\* respect and fulfillable, has been rejected
ForgedCheckoutRejected ==
    /\ resp.op = "stripeWebhook"
    /\ resp.status = 400
    /\ ~resp.evt.signed /\ resp.evt.complete /\ resp.evt.type = CheckoutCompleted
    /\ [sid |-> resp.evt.sid, pid |-> resp.evt.pid, seller |-> resp.evt.seller] \in checkouts
    /\ resp.evt.sid \in DOMAIN sessions
    /\ ~sessions[resp.evt.sid].completed
    /\ resp.evt.pid \in DOMAIN products
    /\ resp.evt.pid \in files
    /\ products[resp.evt.pid].expiresAt >= now

(* ------------------------------- fee split ------------------------------- *)

\* prices in whole cents, from the minimum price to 100 dollars
FeePrices ==
    {Dollar, 999 * Cent, 1999 * Cent, 20 * Dollar, 7407 * Cent, 100 * Dollar}

\* the two products listed at any of these prices
InitPriced == \E price \in [{1, 2} -> FeePrices] : OpenCheckouts(price)

\* the sales of the two products, while time passes and the second file is
\* uploaded
NextFee ==
    \/ Tick /\ UNCHANGED resp /\ UNCHANGED jobVars
    \/ \E productId \in ProductIds : uploadFile(productId) /\ UNCHANGED resp /\ UNCHANGED jobVars
    \/ \E evt \in Metadata, status \in StatusCodes :
           stripeWebhook(Completed(evt), status) /\ UNCHANGED resp /\ UNCHANGED jobVars

SpecFee == InitPriced /\ [][NextFee]_vars

\* C18: on every Order that fulfilment creates, with gross amount g of c
\* cents and the amounts counted in millionths of a dollar, channelFee is
\* 0.029 g + 0.30 (290 millionths per cent, and 300000), commission is 0.12 g
\* (1200 millionths per cent), sellerAmount is g - channelFee - commission, the
\* three add up to g, and for g = 100.00 the sellerAmount is 84.80
FeeSplitAddsUp ==
    \A o \in DOMAIN orders :
        LET g == orders[o].amount
            c == g \div Cent
        IN  /\ g = c * Cent
            /\ orders[o].stripeFee = c * 290 + 300000
            /\ orders[o].commission = c * 1200
            /\ orders[o].sellerAmount = g - orders[o].stripeFee - orders[o].commission
            /\ orders[o].stripeFee + orders[o].commission + orders[o].sellerAmount = g
            /\ g = 100 * Dollar => orders[o].sellerAmount = 8480 * Cent

\* an Order of 100.00 and an Order of 19.99 have been created
OrderOfHundred ==
    \E o, q \in DOMAIN orders :
        /\ orders[o].amount = 100 * Dollar
        /\ orders[o].sellerAmount = 8480 * Cent
        /\ orders[q].amount = 1999 * Cent

(* --------------------- store failures and redelivery --------------------- *)

\* the store call that invocation w makes next throws: the handler's catch
\* answers 400, what was written stays written, and Stripe will deliver the
\* event again
whStoreFails(w) ==
    /\ wh[w].pc # "idle"
    /\ wh' = [wh EXCEPT ![w] = Idle]
    /\ UNCHANGED <<webhookVars, products, sessions, orders, nextOrder, users, transactions,
                   hist>>

\* deliveries handled one at a time by a single invocation, each of which may
\* fail at any store call; an event answered 400 is delivered again
NextRetry ==
    \/ \E productId \in ProductIds : uploadFile(productId) /\ UNCHANGED resp /\ UNCHANGED jobVars
    \/ \E evt \in Metadata : whReadSession("w1", evt) /\ UNCHANGED jobVars
    \/ whReadProduct("w1") /\ UNCHANGED jobVars
    \/ whFileExists("w1") /\ UNCHANGED jobVars
    \/ whAddOrder("w1") /\ UNCHANGED jobVars
    \/ whUpdateProduct("w1") /\ UNCHANGED jobVars
    \/ whCreditSeller("w1") /\ UNCHANGED jobVars
    \/ whAddTransaction("w1") /\ UNCHANGED jobVars
    \/ whCompleteSession("w1") /\ UNCHANGED jobVars
    \/ whStoreFails("w1") /\ UNCHANGED jobVars

SpecRetry == InitCheckout /\ [][NextRetry]_vars

\* C19: when a fulfilment has failed on a store error after its Order was
\* created and before its PaymentSession was marked completed, and the event
\* has been delivered again and fulfilled, the store holds exactly one Order,
\* one balance credit and one sale Transaction for the session
RedeliveryAfterFailureFulfilsOnce ==
    \A s \in DOMAIN sessions :
        (sessions[s].completed /\ wh["w1"].pc = "idle") =>
            /\ hist[s].orders = 1
            /\ hist[s].credits = 1
            /\ hist[s].sales = 1

\* C20: the balance credit and the sale Transaction of a fulfilment are
\* applied together: in no reachable state, store failures between the steps
\* included, has a session's fulfilment credited the seller without having
\* appended the sale Transaction, or appended it without the credit
CreditAndTransactionTogether ==
    \A s \in SessionIds : hist[s].credits = hist[s].sales

(* --------------------------- payouts, step-wise -------------------------- *)

\* what a run keeps of a user document of its query
Snapshot(u) ==
    [userId |-> u, balance |-> users[u].balance, paypalEmail |-> users[u].paypalEmail]

\* the payout of the head of the queue is over; the run goes on with the next
nextUser(j) == [po EXCEPT ![j] = [pc |-> "loop", queue |-> Tail(po[j].queue)]]

\* a throw inside processPayout's inner try: its catch adds a payoutErrors
\* row and rethrows, and the catch of the loop adds another
payoutFails(j) ==
    LET user == Head(po[j].queue) IN
    /\ Len(payoutErrors) < MaxPayoutErrors
    /\ payoutErrors' =
           AddDoc(AddDoc(payoutErrors, payoutError(user.userId, user.balance, "processPayout")),
                  payoutError(user.userId, user.balance, j))
    /\ po' = nextUser(j)

\* the query of a run: the documents are read once, and the run pays the
\* balances that it has read.  weeklyPayouts sends its notices here
poSelect(j, queue) ==
    /\ po[j].pc = "idle"
    /\ IF j = "processWeeklyPayouts"
       THEN /\ queue \in Perms(payoutCandidates)
            /\ UNCHANGED notices
       ELSE /\ queue \in Perms(eligibleUsers)
            /\ \A i, k \in 1..Len(queue) :
                   i < k => users[queue[i]].balance >= users[queue[k]].balance
            /\ \A u \in ineligibleUsers : notices[u] < MaxNotices
            /\ notices' = [u \in DOMAIN notices |-> IF u \in ineligibleUsers
                                                    THEN notices[u] + 1 ELSE notices[u]]
    /\ po' = [po EXCEPT ![j] = [pc |-> "loop",
                                queue |-> [i \in 1..Len(queue) |-> Snapshot(queue[i])]]]
    /\ UNCHANGED <<now, catalogVars, checkoutVars, orderVars, users, transactions,
                   payoutHistory, payoutErrors, paypalCalls, wh, ac, debits, hist,
                   deletedUsers, shippedCount, swept, firstDevice>>

\* the next user of the run, up to payoutsClient.execute: the scheduled run
\* skips a malformed address and a balance below the minimum; PayPal accepts
\* the request or refuses it
poCall(j, accepted) ==
    /\ po[j].pc = "loop"
    /\ po[j].queue # <<>>
    /\ LET user == Head(po[j].queue) IN
       IF /\ j = "processWeeklyPayouts"
          /\ ~isEmail(user.paypalEmail) \/ user.balance < MIN_PAYOUT
       THEN /\ po' = nextUser(j)
            /\ UNCHANGED <<payoutErrors, paypalCalls, debits>>
       ELSE IF user.balance - payoutFee(user.balance) <= 0
       THEN /\ Len(payoutErrors) < MaxPayoutErrors
            /\ payoutErrors' = AddDoc(payoutErrors, payoutError(user.userId, user.balance, j))
            /\ po' = nextUser(j)
            /\ UNCHANGED <<paypalCalls, debits>>
       ELSE /\ paypalCalls' = Append(paypalCalls, paypalCall(user.userId, user.balance, accepted))
            /\ IF accepted
               THEN /\ po' = [po EXCEPT ![j].pc = "debit"]
                    /\ debits' = [debits EXCEPT ![user.userId].sent = @ + user.balance]
                    /\ UNCHANGED payoutErrors
               ELSE payoutFails(j) /\ UNCHANGED debits
    /\ UNCHANGED <<now, catalogVars, checkoutVars, orderVars, users, transactions,
                   payoutHistory, notices, wh, ac, hist, deletedUsers, shippedCount, swept, firstDevice>>

\* a debit that writes the balance computed from the snapshot of the query
debitFromSnapshot(uid, amount) == [users EXCEPT ![uid].balance = amount - amount]

\* {balance: FieldValue.increment(-Number(amount))}: a delta on the stored value
debitBalance(uid, amount) == [users EXCEPT ![uid].balance = @ - amount]

\* users.doc(userId).update({balance: increment(-amount)}): the snapshot
\* balance is subtracted from the stored one; the write may fail, and fails
\* on a missing document
poDebit(j, ok) ==
    /\ po[j].pc = "debit"
    /\ LET user == Head(po[j].queue) IN
       IF ok /\ user.userId \in DOMAIN users
       THEN /\ users' = debitBalance(user.userId, user.balance)
            /\ debits' = [debits EXCEPT ![user.userId].count = @ + 1,
                                        ![user.userId].amount = @ + user.balance]
            /\ po' = [po EXCEPT ![j].pc = "record"]
            /\ UNCHANGED payoutErrors
       ELSE /\ payoutFails(j)
            /\ UNCHANGED <<users, debits>>
    /\ UNCHANGED <<now, catalogVars, checkoutVars, orderVars, transactions, payoutHistory,
                   paypalCalls, notices, wh, ac, hist, deletedUsers, shippedCount, swept, firstDevice>>

\* payoutHistory.add, which may fail
poRecord(j, ok) ==
    /\ po[j].pc = "record"
    /\ LET user == Head(po[j].queue) IN
       IF ok
       THEN /\ payoutHistory' = AddDoc(payoutHistory, payoutRecord(user.userId, user.balance))
            /\ po' = [po EXCEPT ![j].pc = "ledger"]
            /\ UNCHANGED payoutErrors
       ELSE /\ payoutFails(j)
            /\ UNCHANGED payoutHistory
    /\ UNCHANGED <<now, catalogVars, checkoutVars, orderVars, users, transactions,
                   paypalCalls, notices, wh, ac, debits, hist, deletedUsers, shippedCount, swept,
                   firstDevice>>

\* transactions.add, which may fail; processPayout returns
poLedger(j, ok) ==
    /\ po[j].pc = "ledger"
    /\ LET user == Head(po[j].queue) IN
       IF ok
       THEN /\ transactions' =
                   AddDoc(transactions, payoutTransaction(user.userId, user.balance))
            /\ po' = nextUser(j)
            /\ UNCHANGED payoutErrors
       ELSE /\ payoutFails(j)
            /\ UNCHANGED transactions
    /\ UNCHANGED <<now, catalogVars, checkoutVars, orderVars, users, payoutHistory,
                   paypalCalls, notices, wh, ac, debits, hist, deletedUsers, shippedCount, swept,
                   firstDevice>>

\* the end of the run; processWeeklyPayouts sends its notices here
poFinish(j) ==
    /\ po[j].pc = "loop"
    /\ po[j].queue = <<>>
    /\ LET noticed == IF j = "processWeeklyPayouts"
                      THEN {u \in lowBalanceUsers(users) : isEmail(users[u].email)}
                      ELSE {}
       IN  /\ \A u \in noticed : notices[u] < MaxNotices
           /\ notices' = [u \in DOMAIN notices |-> IF u \in noticed THEN notices[u] + 1
                                                   ELSE notices[u]]
    /\ po' = [po EXCEPT ![j] = NoJob]
    /\ UNCHANGED <<now, catalogVars, checkoutVars, orderVars, users, transactions,
                   payoutHistory, payoutErrors, paypalCalls, wh, ac, debits, hist,
                   deletedUsers, shippedCount, swept, firstDevice>>

\* the store of InitSold once a second buyer has given an email and opened a
\* checkout of the product (collectBuyerEmail, createStripeCheckoutSession)
InitPayable ==
    /\ now = 0
    /\ products = Put(Empty, 1, [uid |-> "u1", price |-> 20 * Dollar, createdAt |-> 0,
                                 expiresAt |-> getProductExpirationDate(0),
                                 sales |-> 1, revenue |-> sellerAmount(20 * Dollar)])
    /\ nextProduct = 2
    /\ files = {1}
    /\ views = [p \in ProductIds |-> 0]
    /\ sessions = [x \in {1, 2} |->
                      IF x = 1
                      THEN [productId |-> 1, completed |-> TRUE, orderId |-> 1,
                            stripeStatus |-> "completed"]
                      ELSE [productId |-> 1, completed |-> FALSE, orderId |-> 0,
                            stripeStatus |-> "created"]]
    /\ nextSession = 3
    /\ checkouts = {[sid |-> x, pid |-> 1, seller |-> "u1"] : x \in {1, 2}}
    /\ orders = Put(Empty, 1, newOrder(1, "u1", 20 * Dollar))
    /\ nextOrder = 2
    /\ accessAttempts = [o \in OrderIds |-> 0]
    /\ accessLogs = [o \in OrderIds |-> 0]
    /\ users = [u \in Users |-> [balance |-> IF u = "u1" THEN sellerAmount(20 * Dollar) ELSE 0,
                                 paypalEmail |-> "valid", email |-> "valid"]]
    /\ transactions = <<saleTransaction("u1", 1, 20 * Dollar)>>
    /\ payoutHistory = <<>>
    /\ payoutErrors = <<>>
    /\ paypalCalls = <<>>
    /\ notices = [u \in Users |-> 0]
    /\ resp = NoResponse
    /\ wh = [w \in Workers |-> Idle]
    /\ ac = [w \in Workers |-> NoAccess]
    /\ po = [j \in Jobs |-> NoJob]
    /\ debits = [u \in Users |-> NoDebits]
    /\ hist = [s \in SessionIds |->
                  IF s = 1 THEN [orders |-> 1, credits |-> 1, sales |-> 1, replayed |-> FALSE]
                  ELSE NoHist]
    /\ deletedUsers = {}
    /\ shippedCount = [o \in OrderIds |-> 0]
    /\ swept = {}
    /\ firstDevice = [o \in OrderIds |-> NoDevice]
    /\ NoJobRecords

\* the two payout runs, step by step and possibly at once, with PayPal
\* refusals and store write failures, while the second sale is fulfilled
NextPayStep ==
    \/ \E j \in Jobs, queue \in Perms(payoutCandidates) \cup Perms(eligibleUsers) :
           poSelect(j, queue) /\ UNCHANGED resp /\ UNCHANGED jobVars
    \/ \E j \in Jobs, accepted \in BOOLEAN : poCall(j, accepted) /\ UNCHANGED resp /\ UNCHANGED jobVars
    \/ \E j \in Jobs, ok \in BOOLEAN : poDebit(j, ok) /\ UNCHANGED resp /\ UNCHANGED jobVars
    \/ \E j \in Jobs, ok \in BOOLEAN : poRecord(j, ok) /\ UNCHANGED resp /\ UNCHANGED jobVars
    \/ \E j \in Jobs, ok \in BOOLEAN : poLedger(j, ok) /\ UNCHANGED resp /\ UNCHANGED jobVars
    \/ \E j \in Jobs : poFinish(j) /\ UNCHANGED resp /\ UNCHANGED jobVars
    \/ \E evt \in Metadata, status \in StatusCodes :
           stripeWebhook(Completed(evt), status) /\ UNCHANGED resp /\ UNCHANGED jobVars

SpecPayStep == InitPayable /\ [][NextPayStep]_vars

\* the rows of a collection that name the user
RowsOf(rows, u) == {i \in 1..Len(rows) : rows[i].userId = u}

PayoutTransactionsOf(u) ==
    {i \in RowsOf(transactions, u) : transactions[i].type = "payout"}

NoPayoutInFlight == \A j \in Jobs : po[j].pc = "idle"

\* C21: in every state where no payout is in flight, store write failures
\* during a payout included, the number of payout debits applied to a user
\* equals the number of the user's PayoutRecords and the number of the user's
\* payout Transactions
DebitRecordTransactionTogether ==
    NoPayoutInFlight =>
        \A u \in Users :
            /\ debits[u].count = Cardinality(RowsOf(payoutHistory, u))
            /\ debits[u].count = Cardinality(PayoutTransactionsOf(u))

(* ---------------------------- refused payouts ---------------------------- *)

\* the users whose payout PayPal refuses in the step
RefusedInStep ==
    {row.userId : row \in {r \in NewRows(paypalCalls, paypalCalls') : ~r.accepted}}

\* gross amounts whose net payout is not positive
UnpayableAmounts == {0, Dollar \div 2}

\* C22: when PayPal refuses the payout of a user in a payout run, the user's
\* balance is not debited, no PayoutRecord and no payout Transaction of the
\* user is appended, a payoutErrors row for the user is appended, and every
\* eligible user of the run is still processed; a payout whose net amount is
\* not positive debits nothing, appends no record and calls nobody
RefusedPayoutWritesOnlyError ==
    [][resp'.op \in PayoutRuns =>
          /\ \A u \in RefusedInStep :
                 /\ users'[u].balance = users[u].balance
                 /\ \A row \in NewRows(payoutHistory, payoutHistory') : row.userId # u
                 /\ \A row \in NewRows(transactions, transactions') : row.userId # u
                 /\ \E row \in NewRows(payoutErrors, payoutErrors') :
                        row.userId = u /\ row.amount = users[u].balance
                 /\ \A v \in DOMAIN users : Eligible(v) => CalledFor(v)
          /\ \A u \in DOMAIN users, amount \in UnpayableAmounts :
                 LET st == processPayout(ledger, u, amount, TRUE) IN
                 /\ amount - payoutFee(amount) <= 0
                 /\ st.users = users
                 /\ st.payoutHistory = payoutHistory
                 /\ st.transactions = transactions
                 /\ st.paypalCalls = paypalCalls]_vars

\* the payout of a was refused and the payout of b, later in the same run,
\* was accepted: a keeps its balance and has a payoutErrors row and no
\* PayoutRecord, b is paid
RefusedThenNextPaid ==
    /\ resp.op \in PayoutRuns
    /\ Len(paypalCalls) >= 2
    /\ paypalCalls[1].userId = "a" /\ ~paypalCalls[1].accepted
    /\ paypalCalls[2].userId = "b" /\ paypalCalls[2].accepted
    /\ users["a"].balance >= MIN_PAYOUT
    /\ users["b"].balance = 0
    /\ RowsOf(payoutErrors, "a") # {}
    /\ RowsOf(payoutHistory, "a") = {}
    /\ RowsOf(payoutHistory, "b") # {}

(* ------------------------ payouts and their debits ----------------------- *)

\* C23: in every state where no payout is in flight, store write failures
\* during a payout included, the total gross amount for which PayPal accepted
\* a payout of a user does not exceed the total amount debited from the
\* user's balance
SentNeverExceedsDebited ==
    NoPayoutInFlight => \A u \in Users : debits[u].sent <= debits[u].amount

\* C24: the balance of a user account is never negative, also when
\* processWeeklyPayouts and weeklyPayouts run over the same user at
\* overlapping times, each debiting the balance it read at its query
BalanceNeverNegative ==
    \A u \in DOMAIN users : users[u].balance >= 0

\* C25: the balance mutations are deltas: wherever the credit of a sale falls
\* between the query of a payout run and its debit of the amount read, no
\* update is lost, and the balance is the amount credited by the sales minus
\* the amount debited by the payouts
NoLostUpdate ==
    \A u \in DOMAIN users : users[u].balance = AmountTotal(u, "sale") - debits[u].amount

\* a run read 16.72 for u1, the second sale was then credited, and the run
\* has debited the 16.72 it had read: the balance is the credit of that sale
CreditedBetweenQueryAndDebit ==
    \E j \in Jobs :
        /\ po[j].pc = "record"
        /\ Head(po[j].queue).userId = "u1"
        /\ Head(po[j].queue).balance = sellerAmount(20 * Dollar)
        /\ sessions[2].completed
        /\ debits["u1"].count = 1
        /\ users["u1"].balance = sellerAmount(20 * Dollar)

(* ---------------------- the sweep during a fulfilment -------------------- *)

\* one invocation of stripeWebhook, step by step, while time passes and the
\* hourly sweep runs between its steps
NextSweep ==
    \/ Tick /\ UNCHANGED resp /\ UNCHANGED jobVars
    \/ \E productId \in ProductIds : uploadFile(productId) /\ UNCHANGED resp /\ UNCHANGED jobVars
    \/ cleanupOldProducts /\ UNCHANGED resp /\ UNCHANGED jobVars
    \/ \E evt \in Metadata : whReadSession("w1", evt) /\ UNCHANGED jobVars
    \/ whReadProduct("w1") /\ UNCHANGED jobVars
    \/ whFileExists("w1") /\ UNCHANGED jobVars
    \/ whAddOrder("w1") /\ UNCHANGED jobVars
    \/ whUpdateProduct("w1") /\ UNCHANGED jobVars
    \/ whCreditSeller("w1") /\ UNCHANGED jobVars
    \/ whAddTransaction("w1") /\ UNCHANGED jobVars
    \/ whCompleteSession("w1") /\ UNCHANGED jobVars

SpecSweep == InitCheckout /\ [][NextSweep]_vars

\* C26: when cleanupOldProducts purges a product whose fulfilment is in
\* flight, the fulfilment completes or leaves no Order behind: once it is
\* over, every Order of the store has its sale Transaction, and every
\* fulfilment has credited the seller as often as it has appended one
SweptFulfilmentIsAllOrNothing ==
    wh["w1"].pc = "idle" =>
        /\ \A o \in DOMAIN orders :
               \E i \in 1..Len(transactions) :
                   transactions[i].type = "sale" /\ transactions[i].orderId = o
        /\ \A s \in SessionIds : hist[s].credits = hist[s].sales

(* ------------------------------ price floor ------------------------------ *)

\* prices a createProduct request may carry, below, at and above the minimum:
\* 0.30, 0.99, 1.00 and 20.00 dollars
FloorPrices == {30 * Cent, 99 * Cent, Dollar, 20 * Dollar}

\* listings at those prices and their sales
NextFloor ==
    \/ \E uid \in Sellers, price \in FloorPrices, status \in StatusCodes :
           createProduct(uid, price, status) /\ UNCHANGED resp /\ UNCHANGED jobVars
    \/ \E productId \in ProductIds : uploadFile(productId) /\ UNCHANGED resp /\ UNCHANGED jobVars
    \/ \E emailOk \in BOOLEAN, productId \in ProductIds, status \in StatusCodes :
           collectBuyerEmail(emailOk, productId, status) /\ UNCHANGED resp /\ UNCHANGED jobVars
    \/ \E productId \in ProductIds, sessionId \in SessionIds, status \in StatusCodes :
           createStripeCheckoutSession(productId, sessionId, status) /\ UNCHANGED resp /\ UNCHANGED jobVars
    \/ \E evt \in Metadata, status \in StatusCodes :
           stripeWebhook(Completed(evt), status) /\ UNCHANGED resp /\ UNCHANGED jobVars

SpecFloor == Init /\ [][NextFloor]_vars

\* C27: for every price that a stored Product can hold, the net seller amount
\* is positive: fulfilment creates no Order, credits no balance and appends
\* no sale Transaction with a sellerAmount that is not positive
NetSellerAmountPositive ==
    /\ \A p \in DOMAIN products : sellerAmount(products[p].price) > 0
    /\ \A o \in DOMAIN orders : orders[o].sellerAmount > 0
    /\ \A i \in 1..Len(transactions) :
           transactions[i].type = "sale" => transactions[i].amount > 0
    /\ \A u \in DOMAIN users : users[u].balance >= 0

\* a product at the minimum price of 1.00 has been sold: the seller is
\* credited 0.551
SoldAtMinimumPrice ==
    \E o \in DOMAIN orders :
        /\ orders[o].amount = Dollar
        /\ orders[o].sellerAmount = 551000
        /\ users[orders[o].sellerUid].balance >= 551000

(* ----------------------- notifications of a sale ------------------------- *)

\* an answer that lets a failed send reach the catch of the handler
answerUncaught(buyerSent, sellerSent) == IF buyerSent /\ sellerSent THEN 200 ELSE 400

\* the answer after the buyer's and the seller's notification: each send has
\* its own try/catch that logs the failure, then res.json({received: true})
answerAfterNotifications(buyerSent, sellerSent) == 200

\* exports.stripeWebhook with its two notifications: after the writes of a
\* fulfilment the confirmation is sent to the buyer and the sale notice to the
\* seller, and each send succeeds or fails
stripeWebhookNotifying(evt, buyerSent, sellerSent, status) ==
    \E written \in StatusCodes :
        /\ stripeWebhook(evt, written)
        /\ status = IF nextOrder' # nextOrder
                    THEN answerAfterNotifications(buyerSent, sellerSent)
                    ELSE written

Notified(evt, buyerSent, sellerSent, status) ==
    [op |-> "stripeWebhook", evt |-> evt, buyerSent |-> buyerSent, sellerSent |-> sellerSent,
     status |-> status]

\* the deliveries of the two checkouts, with notifications that may fail,
\* while time passes and the second file is uploaded
NextNotify ==
    \/ Tick /\ resp' = NoResponse /\ UNCHANGED jobVars
    \/ \E productId \in ProductIds : uploadFile(productId) /\ resp' = NoResponse /\ UNCHANGED jobVars
    \/ \E evt \in Metadata, buyerSent, sellerSent \in BOOLEAN, status \in StatusCodes :
           /\ stripeWebhookNotifying(Completed(evt), buyerSent, sellerSent, status)
           /\ resp' = Notified(Completed(evt), buyerSent, sellerSent, status) /\ UNCHANGED jobVars

SpecNotify == InitCheckout /\ [][NextNotify]_vars

\* C28: when a delivery is fulfilled and the buyer's or the seller's
\* notification fails to send, the Order, the product counters, the balance
\* credit, the sale Transaction and the completed flag are all as the
\* fulfilment wrote them, and the event is acknowledged with 200
FailedNotificationKeepsFulfilment ==
    [][\A evt \in Metadata :
          (/\ resp'.op = "stripeWebhook"
           /\ resp'.evt = Completed(evt)
           /\ ~(resp'.buyerSent /\ resp'.sellerSent)
           /\ ~Unfulfillable(Completed(evt))
           /\ ~sessions[evt.sid].completed) =>
              LET pid == evt.pid
                  net == sellerAmount(products[pid].price)
              IN  /\ nextOrder \in DOMAIN orders'
                  /\ orders'[nextOrder].productId = pid
                  /\ products'[pid].sales = products[pid].sales + 1
                  /\ products'[pid].revenue = products[pid].revenue + net
                  /\ users'[evt.seller].balance = users[evt.seller].balance + net
                  /\ \E row \in NewRows(transactions, transactions') :
                         row.type = "sale" /\ row.orderId = nextOrder /\ row.amount = net
                  /\ sessions'[evt.sid].completed
                  /\ sessions'[evt.sid].orderId = nextOrder
                  /\ resp'.status = 200]_vars

\* a delivery has just been fulfilled, both of its notifications failed, and
\* it was acknowledged
FulfilledWithoutNotifications ==
    /\ resp.op = "stripeWebhook"
    /\ ~resp.buyerSent /\ ~resp.sellerSent
    /\ resp.status = 200
    /\ resp.evt.sid \in DOMAIN sessions
    /\ sessions[resp.evt.sid].completed
    /\ sessions[resp.evt.sid].orderId = nextOrder - 1
    /\ ~hist[resp.evt.sid].replayed
    /\ users["u1"].balance > 0

(* --------------------------- shipped counter ----------------------------- *)

\* concurrent accessContent calls on the order of InitSold
NextShipOnce ==
    \/ \E w \in Workers, token \in OrderIds, userAgent \in UserAgents,
          status \in StatusCodes \cup {0} :
           /\ acRead(w, token, userAgent, status)
           /\ resp' = Request("accessContent", 0, 0, FALSE, token, userAgent, status) /\ UNCHANGED jobVars
    \/ \E w \in Workers, status \in StatusCodes \cup {500} :
           /\ acShip(w, status)
           /\ resp' = Request("accessContent", 0, 0, FALSE, ac[w].token, "", status) /\ UNCHANGED jobVars

SpecShipOnce == InitSold /\ [][NextShipOnce]_vars

\* C29: the first successful access moves the Order from completed to shipped
\* and increments the seller's shippedCount, and the counter is incremented at
\* most once for an Order, also when two accessContent calls for the same
\* token run concurrently
ShippedCountedOnce ==
    \A o \in DOMAIN orders :
        /\ shippedCount[o] <= 1
        /\ (accessLogs[o] > 0 /\ \A w \in Workers : ac[w].pc = "idle") =>
               orders[o].status = "shipped" /\ shippedCount[o] = 1

(* ------------------------- what the sweep selects ------------------------ *)

\* listings made at different times, their files and views, and the hourly
\* sweep, while time passes
NextExpire ==
    \/ Tick /\ resp' = NoResponse /\ UNCHANGED jobVars
    \/ \E uid \in Sellers, price \in FloorPrices, status \in StatusCodes :
           createProduct(uid, price, status) /\ resp' = NoResponse /\ UNCHANGED jobVars
    \/ \E productId \in ProductIds : uploadFile(productId) /\ resp' = NoResponse /\ UNCHANGED jobVars
    \/ cleanupOldProducts /\ resp' = Ran("cleanupOldProducts") /\ UNCHANGED jobVars

SpecExpire == Init /\ [][NextExpire]_vars

recordProductView(productId, status) ==
    /\ \/ /\ productId \notin DOMAIN products
          /\ status = 404
          /\ UNCHANGED <<views, userStats>>
       \/ /\ productId \in DOMAIN products
          /\ views[productId] < MaxViews
          /\ views' = [views EXCEPT ![productId] = @ + 1]
          /\ userStats' = [userStats EXCEPT ![products[productId].uid].viewsCount = @ + 1]
          /\ status = 200
    /\ UNCHANGED <<now, products, nextProduct, files, checkoutVars, orderVars, moneyVars,
                   historyVars, systemErrors, payoutSessions, emailSentLogs, warnings, cl,
                   batches>>

\* a sweep that deletes the product document before its dependent rows
sweepStepsProductFirst ==
    <<"product", "files", "views", "orders", "paymentSessions", "emailSentLogs">>

\* the deletions of one product in the loop of cleanupOldProducts, in the
\* order of the code: the product document goes last
sweepSteps == <<"files", "views", "orders", "paymentSessions", "emailSentLogs", "product">>

\* what the sweep leaves alone
sweepFrame ==
    <<now, nextProduct, nextSession, checkouts, nextOrder, moneyVars, historyVars, systemErrors,
      payoutSessions, warnings, batches>>

\* the snapshot of the query, oldest first
InQueryOrder(queue) ==
    \A i, j \in 1..Len(queue) :
        i < j => products[queue[i]].createdAt <= products[queue[j]].createdAt

\* cleanupOldProducts up to the loop: the query, and the return when nothing has
\* expired; sellerImpact collects the sellers of the products found
clQuery(queue) ==
    /\ cl.pc = "idle"
    /\ InQueryOrder(queue)
    /\ cl' = IF queue = <<>> THEN cl
             ELSE [cl EXCEPT !.pc = "delete", !.step = 1, !.queue = queue,
                             !.sellers = {products[p].uid : p \in oldProducts}]
    /\ UNCHANGED <<products, files, views, sessions, orders, accessAttempts, accessLogs,
                   emailSentLogs, userStats, sweepFrame>>

\* one deletion of the loop for the product at the head of the queue; ok is
\* whether the storage or the store carries it out: a failure is caught, logged
\* on the console and the loop goes on
clDelete(ok) ==
    /\ cl.pc = "delete"
    /\ LET productId == Head(cl.queue)
           kind == sweepSteps[cl.step]
           did(k) == ok /\ kind = k
           found == ordersOfProducts({productId})
       IN  /\ files' = IF did("files") THEN files \ {productId} ELSE files
           /\ views' = IF did("views") THEN [views EXCEPT ![productId] = 0] ELSE views
           /\ accessLogs' = IF did("orders")
                             THEN [o \in OrderIds |-> IF o \in found THEN 0 ELSE accessLogs[o]]
                             ELSE accessLogs
           /\ accessAttempts' = IF did("orders")
                                 THEN [o \in OrderIds |->
                                          IF o \in found THEN 0 ELSE accessAttempts[o]]
                                 ELSE accessAttempts
           /\ orders' = IF did("orders") THEN Remove(orders, found) ELSE orders
           /\ sessions' = IF did("paymentSessions")
                           THEN Remove(sessions, sessionsOfProducts({productId}))
                           ELSE sessions
           /\ emailSentLogs' = IF did("emailSentLogs") THEN emailSentLogs \ {productId}
                                ELSE emailSentLogs
           /\ products' = IF did("product") THEN Remove(products, {productId}) ELSE products
    /\ cl' = IF cl.step < Len(sweepSteps) THEN [cl EXCEPT !.step = @ + 1]
             ELSE IF Len(cl.queue) > 1 THEN [cl EXCEPT !.step = 1, !.queue = Tail(@)]
             ELSE [cl EXCEPT !.pc = "stats", !.step = 1, !.queue = <<>>]
    /\ UNCHANGED <<userStats, sweepFrame>>

\* a sweep that keeps the counters it finds and only adjusts linksCount
recountLinksOnly(uid) ==
    [userStats[uid] EXCEPT
        !.linksCount = Cardinality({p \in DOMAIN products : products[p].uid = uid})]

RECURSIVE revenueOf(_)
\* orders.reduce: the sellerAmount of the orders that are not cancelled
revenueOf(orderIds) ==
    IF orderIds = {} THEN 0
    ELSE LET o == CHOOSE x \in orderIds : TRUE
         IN  (IF orders[o].sellerAmount # 0 /\ orders[o].status # "cancelled"
              THEN orders[o].sellerAmount ELSE 0) + revenueOf(orderIds \ {o})

\* the stats recomputed from the rows that remain: the seller's products, the
\* views of them, the seller's orders
recount(uid) ==
    LET mine == {p \in DOMAIN products : products[p].uid = uid}
        sold == {o \in DOMAIN orders : orders[o].sellerUid = uid}
    IN  [linksCount |-> Cardinality(mine),
         viewsCount |-> SumInts([i \in 1..MaxProducts |-> IF i \in mine THEN views[i] ELSE 0]),
         ordersCount |-> Cardinality(sold),
         shippedCount |-> Cardinality({o \in sold : orders[o].status \in {"shipped", "delivered"}}),
         revenueCount |-> revenueOf(sold)]

\* the end of cleanupOldProducts: userStats.doc(uid).set of the recount for
\* every seller in sellerImpact, then the return to the scheduler
clRecount ==
    /\ cl.pc = "stats"
    /\ userStats' = [u \in Users |-> IF u \in cl.sellers THEN recount(u) ELSE userStats[u]]
    /\ cl' = [NoSweep EXCEPT !.kills = cl.kills]
    /\ UNCHANGED <<products, files, views, sessions, orders, accessAttempts, accessLogs,
                   emailSentLogs, sweepFrame>>

\* the platform ends the run where it stands (timeout, redeploy): nothing is
\* written, and the next scheduled run starts from the query
clKilled ==
    /\ cl.pc # "idle"
    /\ cl.kills < MaxKills
    /\ cl' = [NoSweep EXCEPT !.kills = cl.kills + 1]
    /\ UNCHANGED <<products, files, views, sessions, orders, accessAttempts, accessLogs,
                   emailSentLogs, userStats, sweepFrame>>

\* the store once seller u1 has listed a product, sold it once, had it viewed
\* once and been warned of its expiration, the stats counted as the handlers
\* count them
InitWarned ==
    /\ now = 0
    /\ products = Put(Empty, 1, [uid |-> "u1", price |-> 20 * Dollar, createdAt |-> 0,
                                 expiresAt |-> getProductExpirationDate(0),
                                 sales |-> 1, revenue |-> sellerAmount(20 * Dollar)])
    /\ nextProduct = 2
    /\ files = {1}
    /\ views = [p \in ProductIds |-> IF p = 1 THEN 1 ELSE 0]
    /\ sessions = Put(Empty, 1, [productId |-> 1, completed |-> TRUE, orderId |-> 1,
                                 stripeStatus |-> "completed"])
    /\ nextSession = 2
    /\ checkouts = {[sid |-> 1, pid |-> 1, seller |-> "u1"]}
    /\ orders = Put(Empty, 1, newOrder(1, "u1", 20 * Dollar))
    /\ nextOrder = 2
    /\ accessAttempts = [o \in OrderIds |-> 0]
    /\ accessLogs = [o \in OrderIds |-> 0]
    /\ users = [u \in Users |-> [balance |-> IF u = "u1" THEN sellerAmount(20 * Dollar) ELSE 0,
                                 paypalEmail |-> "valid", email |-> "valid"]]
    /\ transactions = <<saleTransaction("u1", 1, 20 * Dollar)>>
    /\ payoutHistory = <<>>
    /\ payoutErrors = <<>>
    /\ paypalCalls = <<>>
    /\ notices = [u \in Users |-> 0]
    /\ resp = NoResponse
    /\ wh = [w \in Workers |-> Idle]
    /\ ac = [w \in Workers |-> NoAccess]
    /\ po = [j \in Jobs |-> NoJob]
    /\ debits = [u \in Users |-> NoDebits]
    /\ hist = [s \in SessionIds |->
                  IF s = 1 THEN [orders |-> 1, credits |-> 1, sales |-> 1, replayed |-> FALSE]
                  ELSE NoHist]
    /\ deletedUsers = {}
    /\ shippedCount = [o \in OrderIds |-> 0]
    /\ swept = {}
    /\ firstDevice = [o \in OrderIds |-> NoDevice]
    /\ userStats = [u \in Users |->
                       IF u = "u1"
                       THEN [linksCount |-> 1, viewsCount |-> 1, ordersCount |-> 1,
                             shippedCount |-> 0, revenueCount |-> sellerAmount(20 * Dollar)]
                       ELSE NoStats]
    /\ systemErrors = <<>>
    /\ payoutSessions = <<>>
    /\ emailSentLogs = {1}
    /\ warnings = [p \in ProductIds |-> IF p = 1 THEN [NoWarning EXCEPT !.sent = 1] ELSE NoWarning]
    /\ cl = NoSweep
    /\ batches = <<>>

\* sweeps that the platform may end at any step, one at a time (maxInstances:
\* 1), with no storage or store failure; between two runs time passes, sellers
\* list products and products are viewed
NextReentry ==
    \/ cl.pc = "idle" /\ Tick /\ resp' = NoResponse /\ UNCHANGED jobVars
    \/ \E uid \in Sellers, status \in StatusCodes :
           /\ cl.pc = "idle"
           /\ createProduct(uid, 20 * Dollar, status)
           /\ resp' = NoResponse /\ UNCHANGED jobVars
    \/ \E productId \in ProductIds, status \in StatusCodes :
           /\ cl.pc = "idle"
           /\ recordProductView(productId, status)
           /\ resp' = NoResponse
    \/ \E queue \in Perms(oldProducts) :
           /\ clQuery(queue)
           /\ resp' = IF queue = <<>> THEN Ran("cleanupOldProducts") ELSE NoResponse
    \/ clDelete(TRUE) /\ resp' = NoResponse
    \/ clRecount /\ resp' = Ran("cleanupOldProducts")
    \/ clKilled /\ resp' = NoResponse

SpecReentry == InitWarned /\ [][NextReentry]_vars

\* nothing of the product is left: no document, no file, no view, no Order, no
\* PaymentSession, no warning log
NoTrace(p) ==
    /\ p \notin DOMAIN products
    /\ p \notin files
    /\ views[p] = 0
    /\ ordersOfProducts({p}) = {}
    /\ sessionsOfProducts({p}) = {}
    /\ p \notin emailSentLogs

\* C31: cleanup is re-entrant: when a run of cleanupOldProducts completes, after
\* any number of runs that were killed at any step, the store holds for the
\* expired products what a single uninterrupted run leaves: no expired Product,
\* and no file, view, Order, PaymentSession or warning log of a purged product
CleanupIsReentrant ==
    resp.op = "cleanupOldProducts" =>
        /\ oldProducts = {}
        /\ \A p \in ProductIds : p \notin DOMAIN products => NoTrace(p)

\* a run has completed after an earlier run was killed, and the sold product
\* is purged
CompletedAfterKill ==
    /\ resp.op = "cleanupOldProducts"
    /\ cl.kills > 0
    /\ 1 \notin DOMAIN products
    /\ nextOrder = 2

\* sweeps in which any deletion may fail and be skipped, one run at a time;
\* between two runs time passes, sellers list products and products are viewed
NextSkip ==
    \/ cl.pc = "idle" /\ Tick /\ resp' = NoResponse /\ UNCHANGED jobVars
    \/ \E uid \in Sellers, status \in StatusCodes :
           /\ cl.pc = "idle"
           /\ createProduct(uid, 20 * Dollar, status)
           /\ resp' = NoResponse /\ UNCHANGED jobVars
    \/ \E productId \in ProductIds, status \in StatusCodes :
           /\ cl.pc = "idle"
           /\ recordProductView(productId, status)
           /\ resp' = NoResponse
    \/ \E queue \in Perms(oldProducts) :
           /\ clQuery(queue)
           /\ resp' = IF queue = <<>> THEN Ran("cleanupOldProducts") ELSE NoResponse
    \/ \E ok \in BOOLEAN : clDelete(ok) /\ resp' = NoResponse
    \/ clRecount /\ resp' = Ran("cleanupOldProducts")

SpecSkip == InitWarned /\ [][NextSkip]_vars

\* C32: whenever cleanupOldProducts has deleted a Product document, no
\* PaymentSession, Order, product view or notification-sent log that references
\* the product remains, even when a deletion of the run failed and was skipped
PurgedProductLeavesNoRow ==
    \A p \in ProductIds :
        p < nextProduct /\ p \notin DOMAIN products =>
            /\ sessionsOfProducts({p}) = {}
            /\ ordersOfProducts({p}) = {}
            /\ views[p] = 0
            /\ p \notin emailSentLogs

(* ---------------------------- batched deletes ---------------------------- *)

\* the most writes the store accepts in one batch
BATCH_LIMIT == 500

\* the numbers of view rows a product may have gathered
RowCounts == (BATCH_LIMIT - 100)..MaxRows

\* the store once seller u1 has listed a product and the product has been
\* viewed many times
InitManyViews ==
    /\ now = 0
    /\ products = Put(Empty, 1, [uid |-> "u1", price |-> 20 * Dollar, createdAt |-> 0,
                                 expiresAt |-> getProductExpirationDate(0),
                                 sales |-> 0, revenue |-> 0])
    /\ nextProduct = 2
    /\ files = {1}
    /\ views \in [ProductIds -> RowCounts \cup {0}]
    /\ \A p \in ProductIds : p \notin DOMAIN products => views[p] = 0
    /\ sessions = Empty
    /\ nextSession = 1
    /\ checkouts = {}
    /\ orders = Empty
    /\ nextOrder = 1
    /\ accessAttempts = [o \in OrderIds |-> 0]
    /\ accessLogs = [o \in OrderIds |-> 0]
    /\ users = [u \in Users |-> [balance |-> 0, paypalEmail |-> "valid", email |-> "valid"]]
    /\ transactions = <<>>
    /\ payoutHistory = <<>>
    /\ payoutErrors = <<>>
    /\ paypalCalls = <<>>
    /\ notices = [u \in Users |-> 0]
    /\ resp = NoResponse
    /\ wh = [w \in Workers |-> Idle]
    /\ ac = [w \in Workers |-> NoAccess]
    /\ po = [j \in Jobs |-> NoJob]
    /\ debits = [u \in Users |-> NoDebits]
    /\ hist = [s \in SessionIds |-> NoHist]
    /\ deletedUsers = {}
    /\ shippedCount = [o \in OrderIds |-> 0]
    /\ swept = {}
    /\ firstDevice = [o \in OrderIds |-> NoDevice]
    /\ NoJobRecords

\* deleteQueryBatch(productViews.where("productId", "==", productId)): every
\* row the query returns is put in one batch, and the batch is committed; the
\* store refuses a batch of more than BATCH_LIMIT writes, and the caller
\* catches the refusal
deleteQueryBatch(productId) ==
    /\ views[productId] > 0
    /\ batches' = Append(batches, views[productId])
    /\ views' = IF views[productId] <= BATCH_LIMIT THEN [views EXCEPT ![productId] = 0]
                ELSE views
    /\ UNCHANGED <<now, products, nextProduct, files, checkoutVars, orderVars, moneyVars,
                   historyVars, userStats, systemErrors, payoutSessions, emailSentLogs,
                   warnings, cl>>

\* the views of a product are deleted, as the deletion paths do it
NextBatch ==
    \/ Tick /\ resp' = NoResponse /\ UNCHANGED jobVars
    \/ \E productId \in ProductIds :
           /\ Len(batches) < MaxBatches
           /\ deleteQueryBatch(productId)
           /\ resp' = NoResponse

SpecBatch == InitManyViews /\ [][NextBatch]_vars

\* C33: every batched delete issued by the deletion paths contains at most the
\* store's per-batch limit of writes, for any number of rows matching the query
BatchesWithinLimit == \A i \in 1..Len(batches) : batches[i] <= BATCH_LIMIT

(* ------------------------- the recount of the stats ---------------------- *)

\* exports.accessContent with the seller's shippedCount, incremented when the
\* access ships the order
accessContentCounting(token, userAgent, status) ==
    /\ accessContent(token, userAgent, status)
    /\ userStats' = IF token \in DOMAIN orders /\ status = 200
                       /\ orders[token].status = "completed"
                       /\ orders[token].productId \in DOMAIN products
                    THEN [userStats EXCEPT
                             ![products[orders[token].productId].uid].shippedCount = @ + 1]
                    ELSE userStats
    /\ UNCHANGED <<systemErrors, payoutSessions, emailSentLogs, warnings, cl, batches>>

\* what a userStats document may hold before a sweep: counters that were
\* incremented by the handlers, reset, or left behind by earlier deletions
StaleStats ==
    [linksCount : {0, 2}, viewsCount : {0, 2}, ordersCount : {0, 2}, shippedCount : {0, 2},
     revenueCount : {0, 2 * sellerAmount(20 * Dollar)}]

\* the store once seller u1 has listed one product at tick 0 and another at
\* tick 1 and sold each once; the first has been viewed
InitStale ==
    /\ now = 1
    /\ products = [p \in {1, 2} |->
                      [uid |-> "u1", price |-> 20 * Dollar, createdAt |-> p - 1,
                       expiresAt |-> getProductExpirationDate(p - 1),
                       sales |-> 1, revenue |-> sellerAmount(20 * Dollar)]]
    /\ nextProduct = 3
    /\ files = {1, 2}
    /\ views = [p \in ProductIds |-> IF p = 1 THEN 1 ELSE 0]
    /\ sessions = [x \in {1, 2} |->
                      [productId |-> x, completed |-> TRUE, orderId |-> x,
                       stripeStatus |-> "completed"]]
    /\ nextSession = 3
    /\ checkouts = {[sid |-> x, pid |-> x, seller |-> "u1"] : x \in {1, 2}}
    /\ orders = [x \in {1, 2} |-> newOrder(x, "u1", 20 * Dollar)]
    /\ nextOrder = 3
    /\ accessAttempts = [o \in OrderIds |-> 0]
    /\ accessLogs = [o \in OrderIds |-> 0]
    /\ users = [u \in Users |->
                   [balance |-> IF u = "u1" THEN 2 * sellerAmount(20 * Dollar) ELSE 0,
                    paypalEmail |-> "valid", email |-> "valid"]]
    /\ transactions = <<saleTransaction("u1", 1, 20 * Dollar),
                        saleTransaction("u1", 2, 20 * Dollar)>>
    /\ payoutHistory = <<>>
    /\ payoutErrors = <<>>
    /\ paypalCalls = <<>>
    /\ notices = [u \in Users |-> 0]
    /\ resp = NoResponse
    /\ wh = [w \in Workers |-> Idle]
    /\ ac = [w \in Workers |-> NoAccess]
    /\ po = [j \in Jobs |-> NoJob]
    /\ debits = [u \in Users |-> NoDebits]
    /\ hist = [s \in SessionIds |->
                  IF s \in {1, 2}
                  THEN [orders |-> 1, credits |-> 1, sales |-> 1, replayed |-> FALSE]
                  ELSE NoHist]
    /\ deletedUsers = {}
    /\ shippedCount = [o \in OrderIds |-> 0]
    /\ swept = {}
    /\ firstDevice = [o \in OrderIds |-> NoDevice]
    /\ \E stats \in StaleStats :
           userStats = [u \in Users |-> IF u = "u1" THEN stats ELSE NoStats]
    /\ systemErrors = <<>>
    /\ payoutSessions = <<>>
    /\ emailSentLogs = {}
    /\ warnings = [p \in ProductIds |-> NoWarning]
    /\ cl = NoSweep
    /\ batches = <<>>

\* whole sweeps, one at a time and with no failure; between two runs time
\* passes, products are viewed and buyers fetch their content
NextRecount ==
    \/ cl.pc = "idle" /\ Tick /\ resp' = NoResponse /\ UNCHANGED jobVars
    \/ \E productId \in ProductIds, status \in StatusCodes :
           /\ cl.pc = "idle"
           /\ recordProductView(productId, status)
           /\ resp' = NoResponse
    \/ \E token \in OrderIds, userAgent \in UserAgents, status \in StatusCodes :
           /\ cl.pc = "idle"
           /\ accessContentCounting(token, userAgent, status)
           /\ resp' = NoResponse
    \/ \E queue \in Perms(oldProducts) :
           /\ clQuery(queue)
           /\ resp' = IF queue = <<>> THEN Ran("cleanupOldProducts") ELSE NoResponse
    \/ clDelete(TRUE) /\ resp' = NoResponse
    \/ clRecount /\ resp' = Ran("cleanupOldProducts")

SpecRecount == InitStale /\ [][NextRecount]_vars

RECURSIVE SurvivingRevenue(_, _)
\* the sum of sellerAmount over the Orders of the set that are not cancelled
SurvivingRevenue(ords, ids) ==
    IF ids = {} THEN 0
    ELSE LET o == CHOOSE x \in ids : TRUE
         IN  (IF ords[o].status # "cancelled" THEN ords[o].sellerAmount ELSE 0)
                 + SurvivingRevenue(ords, ids \ {o})

\* C34: when a run of cleanupOldProducts that deleted a product of seller S
\* ends, with no concurrent operation, UserStats(S) is a full recount whatever
\* it held before: linksCount the number of S's surviving Products, viewsCount
\* the number of surviving views, ordersCount the number of surviving Orders,
\* shippedCount those shipped or delivered, revenueCount the sum of
\* sellerAmount over the surviving Orders that are not cancelled
SweepRecountsStats ==
    [][cl.pc = "stats" /\ cl'.pc = "idle" =>
          \A S \in cl.sellers :
              LET sold == {o \in DOMAIN orders' : orders'[o].sellerUid = S}
              IN  /\ userStats'[S].linksCount =
                         Cardinality({p \in DOMAIN products' : products'[p].uid = S})
                  /\ userStats'[S].viewsCount =
                         SumInts([p \in 1..MaxProducts |->
                                     IF p \in DOMAIN products' /\ products'[p].uid = S
                                     THEN views'[p] ELSE 0])
                  /\ userStats'[S].ordersCount = Cardinality(sold)
                  /\ userStats'[S].shippedCount =
                         Cardinality({o \in sold : orders'[o].status \in {"shipped", "delivered"}})
                  /\ userStats'[S].revenueCount = SurvivingRevenue(orders', sold)]_vars

\* a sweep has purged the first product and recounted u1's stats from the
\* second, which was viewed once and whose order was shipped
RecountedAfterPurge ==
    /\ resp.op = "cleanupOldProducts"
    /\ DOMAIN products = {2}
    /\ userStats["u1"] = [linksCount |-> 1, viewsCount |-> 1, ordersCount |-> 1,
                          shippedCount |-> 1, revenueCount |-> sellerAmount(20 * Dollar)]

(* ------------------------ purges and the accounts ------------------------ *)

\* sellers delete their products, the sweep runs step by step with deletions
\* that may fail, and the weekly payout debits the balances
NextPurge ==
    \/ Tick /\ resp' = NoResponse /\ UNCHANGED jobVars
    \/ \E uid \in Users, productId \in ProductIds, status \in StatusCodes :
           /\ deleteProduct(uid, productId, status)
           /\ resp' = Request("deleteProduct", productId, 0, FALSE, 0, "", status)
           /\ UNCHANGED jobVars
    \/ \E queue \in Perms(oldProducts) :
           /\ clQuery(queue)
           /\ resp' = IF queue = <<>> THEN Ran("cleanupOldProducts") ELSE NoResponse
    \/ \E ok \in BOOLEAN : clDelete(ok) /\ resp' = NoResponse
    \/ clRecount /\ resp' = Ran("cleanupOldProducts")
    \/ \E paypalOk \in SUBSET Users, queue \in Perms(payoutCandidates) :
           /\ processWeeklyPayouts(queue, paypalOk)
           /\ resp' = Ran("processWeeklyPayouts") /\ UNCHANGED jobVars

SpecPurge == InitStale /\ [][NextPurge]_vars

\* C35: cleanupOldProducts and deleteProduct leave every UserAccount unchanged:
\* no step of a sweep and no deleteProduct request modifies a balance, a payout
\* destination or any other field of a UserAccount, whatever Orders the
\* product had
PurgeLeavesAccountsAlone ==
    [][cl' # cl \/ resp'.op \in {"cleanupOldProducts", "deleteProduct"} => users' = users]_vars

\* both sold products have been purged, one by its seller and one by the
\* sweep, and the seller still holds the proceeds of both sales
PurgedWithProceedsKept ==
    /\ products = Empty
    /\ orders = Empty
    /\ resp.op = "cleanupOldProducts"
    /\ swept = {}
    /\ users["u1"].balance = 2 * sellerAmount(20 * Dollar)

(* -------------------------- access after a purge ------------------------- *)

\* buyers fetch their content with any token from any device while sellers
\* delete products and the sweep runs step by step, with deletions that may
\* fail
NextRevoke ==
    \/ Tick /\ resp' = NoResponse /\ UNCHANGED jobVars
    \/ \E token \in OrderIds, userAgent \in UserAgents, status \in StatusCodes :
           /\ accessContentCounting(token, userAgent, status)
           /\ resp' = Request("accessContent", 0, 0, FALSE, token, userAgent, status)
    \/ \E uid \in Users, productId \in ProductIds, status \in StatusCodes :
           /\ deleteProduct(uid, productId, status)
           /\ resp' = Request("deleteProduct", productId, 0, FALSE, 0, "", status)
           /\ UNCHANGED jobVars
    \/ \E queue \in Perms(oldProducts) :
           /\ clQuery(queue)
           /\ resp' = IF queue = <<>> THEN Ran("cleanupOldProducts") ELSE NoResponse
    \/ \E ok \in BOOLEAN : clDelete(ok) /\ resp' = NoResponse
    \/ clRecount /\ resp' = Ran("cleanupOldProducts")

SpecRevoke == InitWarned /\ [][NextRevoke]_vars

\* C36: after a product has been purged by cleanupOldProducts or deleteProduct,
\* accessContent never returns a file URL for a token that was issued for an
\* Order of that product, from any device: a call answers 200 only for a token
\* whose Order is stored and whose Product document is stored
NoContentAfterPurge ==
    [][resp'.op = "accessContent" /\ resp'.status = 200 =>
          /\ resp'.token \in DOMAIN orders
          /\ orders[resp'.token].productId \in DOMAIN products]_vars

\* a call from the device of the purchase has been refused for an Order that
\* outlived its purged product
RefusedForPurgedProduct ==
    /\ resp.op = "accessContent"
    /\ resp.status = 404
    /\ resp.userAgent = ""
    /\ resp.token \in DOMAIN orders
    /\ orders[resp.token].productId \notin DOMAIN products

(* -------------------------- expiration warnings -------------------------- *)

\* In the specifications of this section the clock counts hours, and the
\* products carry createdAt and expiresAt in hours.
PRODUCT_TTL_HOURS == 168
WARNING_BEFORE_EXP == 24
WARNING_WINDOW == 1

\* the store six days after seller u1 listed two products, each in the hour 0
\* or in the hour 1, one hour before the first of them enters the warning
\* window
InitExpiring ==
    /\ now = PRODUCT_TTL_HOURS - WARNING_BEFORE_EXP - 1
    /\ \E created \in [{1, 2} -> {0, 1}] :
           products = [p \in {1, 2} |->
                          [uid |-> "u1", price |-> 20 * Dollar, createdAt |-> created[p],
                           expiresAt |-> created[p] + PRODUCT_TTL_HOURS,
                           sales |-> 0, revenue |-> 0]]
    /\ nextProduct = 3
    /\ files = {1, 2}
    /\ views = [p \in ProductIds |-> 0]
    /\ sessions = Empty
    /\ nextSession = 1
    /\ checkouts = {}
    /\ orders = Empty
    /\ nextOrder = 1
    /\ accessAttempts = [o \in OrderIds |-> 0]
    /\ accessLogs = [o \in OrderIds |-> 0]
    /\ users = [u \in Users |-> [balance |-> 0, paypalEmail |-> "valid", email |-> "valid"]]
    /\ transactions = <<>>
    /\ payoutHistory = <<>>
    /\ payoutErrors = <<>>
    /\ paypalCalls = <<>>
    /\ notices = [u \in Users |-> 0]
    /\ resp = NoResponse
    /\ wh = [w \in Workers |-> Idle]
    /\ ac = [w \in Workers |-> NoAccess]
    /\ po = [j \in Jobs |-> NoJob]
    /\ debits = [u \in Users |-> NoDebits]
    /\ hist = [s \in SessionIds |-> NoHist]
    /\ deletedUsers = {}
    /\ shippedCount = [o \in OrderIds |-> 0]
    /\ swept = {}
    /\ firstDevice = [o \in OrderIds |-> NoDevice]
    /\ NoJobRecords

\* an hour passes
Hour ==
    /\ now < MaxHour
    /\ now' = now + 1
    /\ UNCHANGED <<storeVars, historyVars, jobVars>>

\* products.where("expiresAt", ">=", windowStart).where("expiresAt", "<", windowEnd)
expiringProducts ==
    {p \in DOMAIN products :
        /\ products[p].expiresAt >= now + WARNING_BEFORE_EXP
        /\ products[p].expiresAt < now + WARNING_BEFORE_EXP + WARNING_WINDOW}

\* the products of the window that a run writes to: the seller has an account
\* with a well-formed email
reachableSellers(found) ==
    {p \in found : products[p].uid \in DOMAIN users /\ isEmail(users[products[p].uid].email)}

\* a run that does not look for an earlier warning
unwarnedOrNot(found) == found

\* the products of the window with no expiration_warning row in emailSentLogs
unwarned(found) == found \ emailSentLogs

\* exports.sendExpirationWarnings (scheduled), one whole run; sendOk are the
\* products for which sendEmailNotification returns true. A warning that was
\* sent is logged in emailSentLogs; one that failed is not, and nothing else
\* is recorded of it
sendExpirationWarnings(sendOk) ==
    LET targets == reachableSellers(unwarned(expiringProducts))
    IN  /\ sendOk \subseteq targets
        /\ \A p \in targets \ sendOk : warnings[p].failed < MaxSendFailures
        /\ emailSentLogs' = emailSentLogs \cup sendOk
        /\ warnings' = [p \in ProductIds |->
                            IF p \in sendOk THEN [warnings[p] EXCEPT !.sent = @ + 1]
                            ELSE IF p \in targets THEN [warnings[p] EXCEPT !.failed = @ + 1]
                            ELSE warnings[p]]
        /\ UNCHANGED <<now, storeVars, historyVars, userStats, systemErrors, payoutSessions,
                       cl, batches>>

\* runs of the warning job at any time, also several in one hour
NextWarn ==
    \/ Hour /\ resp' = NoResponse
    \/ \E sendOk \in SUBSET ProductIds :
           sendExpirationWarnings(sendOk) /\ resp' = Ran("sendExpirationWarnings")

SpecWarn == InitExpiring /\ [][NextWarn]_vars

\* C37: across any sequence of sendExpirationWarnings runs no product is sent
\* more than one expiration warning, and a product for which a warning has
\* been logged is skipped by every later run: no email is attempted for it
AtMostOneWarning ==
    /\ [](\A p \in ProductIds : warnings[p].sent <= 1)
    /\ [][\A p \in emailSentLogs : warnings'[p] = warnings[p]]_vars

\* two products expire in the same hour; a run warned the first and failed on
\* the second, and a later run in the same window warned the second
WarnedInTwoRuns ==
    /\ products[1].expiresAt = products[2].expiresAt
    /\ warnings[1] = [sent |-> 1, failed |-> 0]
    /\ warnings[2] = [sent |-> 1, failed |-> 1]
    /\ emailSentLogs = {1, 2}

\* the warning job on its schedule: one run in every hour, and the next hour
\* begins once the run of the hour has been made
NextHourly ==
    \/ /\ resp.op = "sendExpirationWarnings"
       /\ Hour
       /\ resp' = NoResponse
    \/ \E sendOk \in SUBSET ProductIds :
           /\ resp.op # "sendExpirationWarnings"
           /\ sendExpirationWarnings(sendOk)
           /\ resp' = Ran("sendExpirationWarnings")

\* the scheduler keeps starting the runs and the hours keep passing
SpecHourly == InitExpiring /\ [][NextHourly]_vars /\ WF_vars(NextHourly)

\* C38: if the warning email for a product fails to send in one run, a later
\* hourly run sends it before the product expires: a product that has reached
\* its expiration time after a failed warning has been sent one
FailedWarningRecovered ==
    \A p \in DOMAIN products :
        warnings[p].failed > 0 /\ products[p].expiresAt <= now => warnings[p].sent > 0

(* ---------------------- exceptions in scheduled jobs --------------------- *)

ScheduledJobs == {"cleanupOldProducts", "sendExpirationWarnings", "processWeeklyPayouts"}

\* a run of a scheduled job as the scheduler sees it: the exception raised in
\* it ("" none, "caught" by a handler inside the run, "thrown" to the top
\* level) and how the run ended (0 returned, 500 failed)
RanWith(op, fault, status) == Request(op, 0, 0, FALSE, 0, fault, status)

\* a run of the job whose first store operation throws: the catch of the job
\* adds a systemErrors row naming the job and returns null; stored is whether
\* the store accepts that row, and when it does not the add throws out of the
\* catch and the run fails
jobThrows(job, stored, status) ==
    /\ Len(systemErrors) < MaxSystemErrors
    /\ systemErrors' = IF stored THEN Append(systemErrors, job) ELSE systemErrors
    /\ status = IF stored THEN 0 ELSE 500
    /\ UNCHANGED <<now, storeVars, historyVars, userStats, payoutSessions, emailSentLogs,
                   warnings, cl, batches>>

\* the weekly payout with PayPal answers of any kind, and runs of the three
\* jobs that throw at their first store operation
NextJobs ==
    \/ Tick /\ resp' = NoResponse /\ UNCHANGED jobVars
    \/ \E paypalOk \in SUBSET Users, queue \in Perms(payoutCandidates) :
           /\ processWeeklyPayouts(queue, paypalOk)
           /\ resp' = RanWith("processWeeklyPayouts",
                              IF payoutErrors' # payoutErrors THEN "caught" ELSE "", 0)
           /\ UNCHANGED jobVars
    \/ \E job \in ScheduledJobs, stored \in BOOLEAN, status \in {0, 500} :
           /\ jobThrows(job, stored, status)
           /\ resp' = RanWith(job, "thrown", status)

SpecJobs == InitStale /\ [][NextJobs]_vars

\* C39: for each of the three scheduled jobs, any exception raised inside a
\* run is caught at the top level, a system-error record naming the job is
\* appended, and the run returns normally to the scheduler
RaisedIsRecorded ==
    [][resp'.op \in ScheduledJobs /\ resp'.userAgent # "" =>
          /\ systemErrors' = Append(systemErrors, resp'.op)
          /\ resp'.status = 0]_vars

(* --------------------------- the payout session -------------------------- *)

\* payoutSessions.add({status: "started", ...})
startedSession ==
    [status |-> "started", processedUsers |-> 0, successfulPayouts |-> 0,
     failedPayouts |-> 0, totalAmount |-> 0]

\* the counters of the loop of processWeeklyPayouts when it ends: a candidate
\* with a malformed PayPal address counts as failed before processedUsers is
\* incremented; the others with the minimum balance count as processed, and
\* then as successful, with their balance added to totalAmount, or as failed
completedSession(queue, paypalOk) ==
    LET found == {queue[i] : i \in 1..Len(queue)}
        malformed == {u \in found : ~isEmail(users[u].paypalEmail)}
        processed == {u \in found \ malformed : users[u].balance >= MIN_PAYOUT}
        failed == {u \in processed : payoutThrows(users[u].balance, u \in paypalOk)}
        paid == processed \ failed
    IN  [status |-> "completed",
         processedUsers |-> Cardinality(processed),
         successfulPayouts |-> Cardinality(paid),
         failedPayouts |-> Cardinality(malformed) + Cardinality(failed),
         totalAmount |-> SumInts([i \in 1..Len(queue) |->
                                     IF queue[i] \in paid THEN users[queue[i]].balance ELSE 0])]

\* exports.processWeeklyPayouts (scheduled), one whole run with its
\* PayoutSession: added as started, updated to completed with the counters
\* once the loop and the low-balance notices are done
processWeeklyPayoutsSession(queue, paypalOk) ==
    /\ Len(payoutSessions) < MaxPayoutSessions
    /\ processWeeklyPayouts(queue, paypalOk)
    /\ payoutSessions' = Append(payoutSessions, completedSession(queue, paypalOk))
    /\ UNCHANGED <<userStats, systemErrors, emailSentLogs, warnings, cl, batches>>

\* a run in which the users query throws after the PayoutSession was added:
\* the catch of the job adds a systemErrors row and returns, and nothing
\* updates the session
processWeeklyPayoutsThrows ==
    /\ Len(payoutSessions) < MaxPayoutSessions
    /\ Len(systemErrors) < MaxSystemErrors
    /\ payoutSessions' = Append(payoutSessions, startedSession)
    /\ systemErrors' = Append(systemErrors, "processWeeklyPayouts")
    /\ UNCHANGED <<now, storeVars, historyVars, userStats, emailSentLogs, warnings, cl,
                   batches>>

\* weekly payout runs with any outcome of the PayPal calls, and runs whose
\* users query throws
NextSession ==
    \/ \E paypalOk \in SUBSET Payees, queue \in Perms(payoutCandidates) :
           /\ processWeeklyPayoutsSession(queue, paypalOk)
           /\ resp' = RanWith("processWeeklyPayouts", "", 0)
    \/ /\ processWeeklyPayoutsThrows
       /\ resp' = RanWith("processWeeklyPayouts", "thrown", 0)

SpecSession == InitPayout /\ [][NextSession]_vars

\* C40: every processWeeklyPayouts run that creates a PayoutSession persists
\* its summary: when the run has ended the session has status completed, its
\* successfulPayouts is the number of PayoutRecords the run created, its
\* totalAmount the sum of their gross amounts, and its processedUsers is
\* successfulPayouts plus failedPayouts
SessionSummaryPersisted ==
    [][resp'.op = "processWeeklyPayouts" /\ Len(payoutSessions') > Len(payoutSessions) =>
          LET session == payoutSessions'[Len(payoutSessions')]
              created == SubSeq(payoutHistory', Len(payoutHistory) + 1, Len(payoutHistory'))
          IN  /\ session.status = "completed"
              /\ session.successfulPayouts = Len(created)
              /\ session.totalAmount =
                     SumInts([i \in 1..Len(created) |-> created[i].grossAmount])
              /\ session.processedUsers =
                     session.successfulPayouts + session.failedPayouts]_vars

====
